---- MODULE Spec2Model ----
(***************************************************************************)
(* Reservation and code-matching engine of El-WeshaqBot (src/main.py,      *)
(* src/models.py).                                                         *)
(*                                                                         *)
(* The bot is one asyncio process: a handler runs without interruption     *)
(* from one `await` that reaches the network to the next, so every action  *)
(* below is the code between two such awaits.                              *)
(*                                                                         *)
(* The store is reached through SessionLocal = scoped_session(...)         *)
(* (main.py:52): get_db() (main.py:101) hands the SAME SQLAlchemy Session  *)
(* to every task of the thread.  The model therefore keeps                 *)
(*   db    the committed rows,                                             *)
(*   sess  the rows as the one shared session sees them (committed rows    *)
(*         plus the changes not committed yet),                            *)
(*   txActive  whether that session has a transaction in progress,         *)
(* and db.commit() / db.rollback() / db.close() / db.begin() act on these  *)
(* whoever calls them (SQLAlchemy >= 1.4: a query or an attribute refresh  *)
(* begins a transaction; Session.begin() raises InvalidRequestError when   *)
(* one is already begun; commit() expires the attached objects; close()    *)
(* rolls back and detaches them; rollback() expires them).                 *)
(*                                                                         *)
(* Timestamps are abstracted: reservation r is created with                *)
(* expired_at = now + RESERVATION_TIMEOUT_MIN, so expiry times grow with   *)
(* the reservation id and "expired_at < now" is "r <= dueUpTo".            *)
(* There is one service; numbers differ in country and price override.     *)
(***************************************************************************)
EXTENDS Integers, Sequences, FiniteSets, Bags, TLC

\* ---------------------------------------------------------------- bounds
NumNumbers == 2
NumUsers == 1
MaxReservations == 2
MaxBalance == 3
MaxAdminTx == 2
MaxAmount == 2
NumCodes == 2
DefaultPrice == 2
OverridePrice == 1
MaxMessages == 2
NumSecrets == 2
NumProviders == 2
MaxBatch == 2
MaxAttempts == 2
Now == 6

\* config.py:25, in minutes.
MESSAGE_TIMESTAMP_WINDOW_MIN == 5

Numbers == 1 .. NumNumbers
Users == 1 .. NumUsers
ResIds == 1 .. MaxReservations
Codes == 1 .. NumCodes
Countries == {"+20", "+971"}

\* Number.country_code: numbers 1 and 2 are of "+20", any further one of "+971".
CountryOf(n) == IF n <= 2 THEN "+20" ELSE "+971"

Providers == 1 .. NumProviders

\* ------------------------------------------------------------- variables
VARIABLES
    db,        \* committed rows: numbers, reservations, balance, transactions
    sess,      \* the rows as seen through the shared session (uncommitted included)
    txActive,  \* the shared session has a transaction in progress
    sweep,     \* check_expired_reservations: its position and the ORM objects it still holds
    dueUpTo,   \* reservations 1..dueUpTo have expired_at < now
    lastCall,  \* what complete_reservation_atomic returned, when the last step was a call of it
    audit,     \* provider_messages: the status of each audit record, in order of creation
    blocked,   \* blocked_messages: the reason of each rejection record, in order of creation
    ing,       \* process_incoming_group_message: its position and the message it handles
    held,      \* the service group object of that task: "none", "A", "AE", "D" or "DE"
    probe,     \* a text handed to the verifier or the extractor, and what came back
    watch,     \* auto_search_for_code: the position and the attempts of each reservation's task
    poll,      \* poll_provider_messages: its position in the tick and what the tick did
    provs,     \* the Provider objects that the poller's tick loaded: "none", "A", "AE", "D", "DE"
    acquired,  \* the rows the last step locked (FOR UPDATE or a flushed write), in order
    clock      \* the wall clock in seconds, and when each watcher began and next wakes

vars ==
    <<db, sess, txActive, sweep, dueUpTo, lastCall, audit, blocked, ing, held, probe,
      watch, poll, provs, acquired, clock>>

\* What the handlers of the reservation engine never touch.
inbound == <<audit, blocked, ing, probe>>

tasks == <<watch, poll, clock>>

\* lowStock: notify_admin_low_stock was not called ("none"), sent its message
\* ("sent") or caught the failure of its send ("failed").
NoCall == [rid |-> 0, ret |-> FALSE, outcome |-> "none", lowStock |-> "none"]

\* ------------------------------------------------------------------ rows
\* Number.price_override: number 2 carries an override, the others none (<<>>).
OverrideOf(n) == IF n = 2 THEN <<OverridePrice>> ELSE <<>>

NumberRow(n) ==
    [present |-> TRUE, status |-> "available", reserved_by |-> 0,
     expires_at |-> 0, price_override |-> OverrideOf(n)]

ReservationRow(u, n, rid) ==
    [present |-> TRUE, user_id |-> u, number_id |-> n, status |-> "waiting_code",
     expired_at |-> rid, code_value |-> 0, completed_at |-> FALSE]

\* A variant of the Transaction row that records no amount.
TransactionRowWithoutAmount(u, type, amount, rid) ==
    [user_id |-> u, type |-> type, amount |-> 0, rid |-> rid]

\* A Transaction row.  The table is kept as a bag of rows (the order of the ids is
\* not modelled).  rid is not a column: it records which reservation's completion
\* wrote the row (0 for an admin adjustment).
TransactionRow(u, type, amount, rid) ==
    [user_id |-> u, type |-> type, amount |-> amount, rid |-> rid]

AddRow(table, row) == table (+) SetToBag({row})

\* A deleted row (db.delete / bulk DELETE): nothing of it is left.
DeletedReservation ==
    [present |-> FALSE, user_id |-> 0, number_id |-> 0, status |-> "deleted",
     expired_at |-> 0, code_value |-> 0, completed_at |-> FALSE]

DeletedNumber ==
    [present |-> FALSE, status |-> "deleted", reserved_by |-> 0,
     expires_at |-> 0, price_override |-> <<>>]

HasRes(v, r) == r \in 1 .. Len(v.reservations) /\ v.reservations[r].present

\* Reservation.status == ReservationStatus.WAITING_CODE, as a query filters on it.
Waiting(v, r) == HasRes(v, r) /\ v.reservations[r].status = "waiting_code"

\* ------------------------------------------------- the shared session
\* An ORM object the sweeper holds: st is "A" (attached, loaded), "AE" (attached,
\* expired by a commit or rollback), "D" (detached with its attributes loaded:
\* number_id is the value it had in memory) or "DE" (detached and expired: reading
\* an attribute raises DetachedInstanceError).
Entry(r, n) == [id |-> r, number_id |-> n, st |-> "A"]

\* db.commit(): expire_on_commit expires every attached object; the object of a
\* deleted row leaves the session with its attributes as they are.
CommitEntry(e, v) ==
    IF e.st \in {"A", "AE"} /\ ~HasRes(v, e.id)
    THEN [e EXCEPT !.st = "D", !.number_id = sess.reservations[e.id].number_id]
    ELSE IF e.st = "A" THEN [e EXCEPT !.st = "AE"] ELSE e

\* db.close(): every object is expunged; a loaded one keeps what it has in memory.
CloseEntry(e, v) ==
    CASE e.st = "A"  -> [e EXCEPT !.st = "D", !.number_id = v.reservations[e.id].number_id]
      [] e.st = "AE" -> [e EXCEPT !.st = "DE"]
      [] OTHER       -> e

\* db.rollback(): every attached object is expired.
RollbackEntry(e) == IF e.st = "A" THEN [e EXCEPT !.st = "AE"] ELSE e

\* The sweeper's objects after the session committed v, was closed on v, rolled back.
Committed(sw, v) == [sw EXCEPT !.list = [i \in 1 .. Len(@) |-> CommitEntry(@[i], v)]]

Closed(sw, v) == [sw EXCEPT !.list = [i \in 1 .. Len(@) |-> CloseEntry(@[i], v)]]

RolledBack(sw) == [sw EXCEPT !.list = [i \in 1 .. Len(@) |-> RollbackEntry(@[i])]]

\* The service group object that ingestion holds: attached and loaded ("A"),
\* attached and expired ("AE"), detached and loaded ("D"), detached and expired
\* ("DE").  The audit record's object is attached exactly when it is.
Expired(o) == IF o = "A" THEN "AE" ELSE o

Detached(o) ==
    CASE o = "A"  -> "D"
      [] o = "AE" -> "DE"
      [] OTHER    -> o

\* The same for the objects of the session other than the sweeper's.
objs_commit ==
    /\ held' = Expired(held)
    /\ provs' = [p \in DOMAIN provs |-> Expired(provs[p])]

objs_commit_close ==
    /\ held' = Detached(Expired(held))
    /\ provs' = [p \in DOMAIN provs |-> Detached(Expired(provs[p]))]

objs_close ==
    /\ held' = Detached(held)
    /\ provs' = [p \in DOMAIN provs |-> Detached(provs[p])]

\* db.commit() then, later, the handler's own db.close(): the session stays open
\* (the code after the commit reads an attribute or queries again, which begins
\* the next transaction) until some handler closes it.
db_commit(v) ==
    /\ db' = v
    /\ sess' = v
    /\ txActive' = TRUE
    /\ sweep' = Committed(sweep, v)
    /\ objs_commit

\* db.commit() directly followed by the handler's finally: db.close().
db_commit_close(v) ==
    /\ db' = v
    /\ sess' = v
    /\ txActive' = FALSE
    /\ sweep' = Closed(Committed(sweep, v), v)
    /\ objs_commit_close

\* finally: db.close() with nothing committed: what was pending is rolled back.
db_close ==
    /\ db' = db
    /\ sess' = db
    /\ txActive' = FALSE
    /\ sweep' = Closed(sweep, sess)
    /\ objs_close

\* except: db.rollback(), then finally: db.close().
db_rollback_close ==
    /\ db' = db
    /\ sess' = db
    /\ txActive' = FALSE
    /\ sweep' = Closed(RolledBack(sweep), sess)
    /\ objs_commit_close

\* A handler that returns after an await without having written: the session keeps
\* its transaction until the handler's finally: db.close() runs (SessionClose).
db_leave_open ==
    /\ UNCHANGED <<db, sess, sweep, held, provs>>
    /\ txActive' = TRUE

IngestIdle == [pc |-> "idle"]

\* No task auto_search_for_code was created for the reservation.
WatchOff == [pc |-> "off", attempts |-> 0]

\* The poller sleeps.  at: the provider whose fetch is awaited; fetched: the
\* providers whose fetch the tick began; handled: the number of messages of the
\* last batch for which process_single_message returned.
PollIdle == [pc |-> "sleep", at |-> 0, fetched |-> {}, handled |-> 0]

NoProbe == [fn |-> "none"]

\* No time has passed and no watcher has been created.
ClockZero == [now |-> 0, since |-> [r \in ResIds |-> 0], wake |-> [r \in ResIds |-> 0]]

\* ------------------------------------------------------------------ Init
\* The rows of a store that holds the Numbers, with the price overrides ov, and
\* the users, and nothing else yet.
StoreRows(ov) ==
    [numbers      |-> [n \in Numbers |-> [NumberRow(n) EXCEPT !.price_override = ov[n]]],
     reservations |-> <<>>,
     balance      |-> [u \in Users |-> 0],
     transactions |-> EmptyBag]

\* No handler has run yet and no task is in its loop.
Quiet ==
    /\ sess = db
    /\ txActive = FALSE
    /\ sweep = [pc |-> "sleep", list |-> <<>>]
    /\ dueUpTo = 0
    /\ lastCall = NoCall
    /\ blocked = <<>>
    /\ ing = IngestIdle
    /\ held = "none"
    /\ watch = [r \in ResIds |-> WatchOff]
    /\ poll = PollIdle
    /\ provs = [p \in Providers |-> "none"]
    /\ acquired = <<>>
    /\ clock = ClockZero

StoreInit ==
    /\ db = StoreRows([n \in Numbers |-> OverrideOf(n)])
    /\ audit = <<>>
    /\ Quiet

Init == StoreInit /\ probe = NoProbe

\* ------------------------------------------------------ inbound texts
\* A message text, as far as the regular expressions of the verifier and of the
\* extractor can tell texts apart.  A field is written
\*   "plain"   to:+20112763404      "spaced"  to: +20112763404
\*   "upper"   TO:+20112763404      "none"    not in the text
\* and a code may also stand "bare" in the text, without a code: label.
\* Phones 1 .. NumNumbers are the phone_number of the Numbers, NumNumbers + 1 is the
\* phone of no Number.  ts is in minutes; hasTs and hasHmac say whether the text
\* carries a ts:<digits> and an hmac:<hex> field.
Labelled == {"plain", "spaced", "upper"}

Phones == 1 .. NumNumbers + 1

Secrets == 1 .. NumSecrets

Stamps ==
    {Now - MESSAGE_TIMESTAMP_WINDOW_MIN - 1, Now - MESSAGE_TIMESTAMP_WINDOW_MIN, Now,
     Now + MESSAGE_TIMESTAMP_WINDOW_MIN, Now + MESSAGE_TIMESTAMP_WINDOW_MIN + 1}

\* hmac.new(secret, f"{number}|{code}|{timestamp}", sha256).hexdigest(): a digest
\* tells apart every key and every payload; hexdigest() is lower-case.
Digest(secret, number, code, timestamp) ==
    [key |-> secret, number |-> number, code |-> code, ts |-> timestamp, hex |-> "lower"]

NoDigest == [key |-> 0, number |-> 0, code |-> 0, ts |-> 0, hex |-> "none"]

\* The digests a sender may write under a text with this number, code and
\* timestamp: of any key, of this payload or of one with another number, code
\* or timestamp, in either letter case.
Digests(number, code, timestamp) ==
    {[Digest(k, n, c, t) EXCEPT !.hex = h] :
        k \in Secrets, n \in {number, NumNumbers + 1}, c \in {code, NumCodes},
        t \in {timestamp, Now}, h \in {"lower", "upper"}}

ToFields == {[kind |-> "none", n |-> 0]} \cup [kind : Labelled, n : Phones]

CodeFields == {[kind |-> "none", c |-> 0]} \cup [kind : Labelled \cup {"bare"}, c : Codes]

Text(to, code, hasTs, ts, hasHmac, digest) ==
    [to |-> to, code |-> code, hasTs |-> hasTs, ts |-> ts, hasHmac |-> hasHmac, hmac |-> digest]

\* Texts without ts: and hmac: fields.
UnsignedTexts == {Text(t, c, FALSE, Now, FALSE, NoDigest) : t \in ToFields, c \in CodeFields}

\* Texts with a ts: field, an hmac: field or both, about the first phone and the
\* first code.
SignedFields ==
    {f \in ToFields \X CodeFields : f[1].n <= 1 /\ f[2].c <= 1}

SignedTexts ==
    {Text(f[1], f[2], TRUE, ts, FALSE, NoDigest) : f \in SignedFields, ts \in Stamps}
    \cup UNION {{Text(f[1], f[2], FALSE, Now, TRUE, h) : h \in Digests(f[1].n, f[2].c, Now)} :
                 f \in SignedFields}
    \cup UNION {{Text(fs[1][1], fs[1][2], TRUE, fs[2], TRUE, h) :
                    h \in Digests(fs[1][1].n, fs[1][2].c, fs[2])} :
                 fs \in SignedFields \X Stamps}

Texts == UnsignedTexts \cup SignedTexts

Abs(x) == IF x < 0 THEN -x ELSE x

\* ------------------------------------------------ verify_hmac_signature
verify_hmac_signature(text, secret, now) ==
    IF ~text.hasHmac \/ ~text.hasTs
    THEN FALSE
    ELSE IF Abs(now - text.ts) > MESSAGE_TIMESTAMP_WINDOW_MIN
    THEN FALSE
    ELSE IF text.to.kind /= "plain" \/ text.code.kind /= "plain"
    THEN FALSE  \* re.search(r'to:(\+\d+)') and r'code:(\d+)': no space, lower case only
    ELSE Digest(secret, text.to.n, text.code.c, text.ts) = text.hmac

\* ----------------------------------------------- verify_message_security
SecurityModes == {"token_only", "admin_only", "hmac", "unset"}

\* What bot.get_chat_member gave: the sender is an administrator, is not, or the
\* call raised (is_user_admin_in_chat then returns False).
Lookups == {"admin", "member", "error"}

LookupNotRefused(lookup) == lookup /= "member"

is_user_admin_in_chat(lookup) == lookup = "admin"

Verdict(valid, reason) == [valid |-> valid, reason |-> reason]

\* secret = 0: no secret_token configured.
verify_message_security(mode, secret, text, now, lookup) ==
    CASE mode = "token_only" -> Verdict(TRUE, "simplified_security")
      [] mode = "admin_only" ->
            IF is_user_admin_in_chat(lookup)
            THEN Verdict(TRUE, "admin_verified")
            ELSE Verdict(FALSE, "not_admin")
      [] mode = "hmac" ->
            IF secret = 0 THEN Verdict(FALSE, "no_secret_configured")
            ELSE IF ~verify_hmac_signature(text, secret, now)
            THEN Verdict(FALSE, "invalid_hmac")
            ELSE Verdict(TRUE, "hmac_verified")
      [] OTHER -> Verdict(FALSE, "unknown_security_mode")

\* ----------------------------------------------- extract_number_and_code
\* regex_pattern of the service group: it matches a bare code ("digits"), matches
\* nothing in the text ("nomatch") or does not compile ("malformed": re.search
\* raises re.error, caught at main.py:859).  0 stands for None.
Patterns == {"digits", "nomatch", "malformed"}

extract_number_and_code(text, regex_pattern) ==
    LET number == IF text.to.kind \in Labelled THEN text.to.n ELSE 0
    IN  IF text.code.kind \in Labelled
        THEN <<number, text.code.c>>
        ELSE IF regex_pattern = "malformed"
        THEN <<0, 0>>
        ELSE IF regex_pattern = "digits" /\ text.code.kind = "bare"
        THEN <<number, text.code.c>>
        ELSE <<number, 0>>

\* ------------------------------------------------------------ row locks
\* The rows a handler locks, by SELECT ... FOR UPDATE or by a write that is
\* flushed, in the order in which the statements reach the database.  A query
\* autoflushes the writes made before it; a flush writes the numbers table
\* before the reservations table that references it.
\* reserve_number: the Number is updated and the Reservation inserted by the
\* flush of the commit.
ReserveLocks == <<"number", "reservation">>

\* complete_reservation_atomic: with_for_update() on each, main.py:1131-1146.
CompleteLocks == <<"reservation", "user", "number">>

\* check_expired_reservations: reservation.status is flushed by the query of the
\* Number (1345), the Number by the query of the User (1353), which locks nothing.
SweepLocks == <<"reservation", "number">>

\* change_number_handler: the released Number is flushed by the query for a new
\* one (2465), reservation.number_id by the commit (2489).
ChangeNumberLocks == <<"number", "reservation">>

\* change_country_handler: the Number is updated, then the Reservation deleted,
\* by the flush of the commit (2530).
ChangeCountryLocks == <<"number", "reservation">>

\* admin_cleanup_numbers_handler: the bulk delete of Numbers, then the
\* Reservations and Numbers that it resets.
CleanupLocks == <<"number", "reservation">>

\* handle_balance_amount
BalanceLocks == <<"user">>

\* ------------------------------------------------------- reserve_number
AvailableNumbers(v, country) ==
    {n \in Numbers : /\ v.numbers[n].present
                     /\ CountryOf(n) = country
                     /\ v.numbers[n].status = "available"}

\* The rows after reserve_number picked number n for user u.
ReserveRows(v, u, n) ==
    LET rid == Len(v.reservations) + 1 IN
    [v EXCEPT !.reservations = Append(@, ReservationRow(u, n, rid)),
              !.numbers[n].status = "reserved",
              !.numbers[n].reserved_by = u,
              !.numbers[n].expires_at = rid]

reserve_number(u, country) ==
    /\ Len(sess.reservations) < MaxReservations
    /\ IF AvailableNumbers(sess, country) = {}
       THEN db_close
       ELSE \E n \in AvailableNumbers(sess, country) :
                db_commit_close(ReserveRows(sess, u, n))
    /\ acquired' = IF AvailableNumbers(sess, country) = {} THEN <<>> ELSE ReserveLocks
    /\ lastCall' = NoCall /\ UNCHANGED <<dueUpTo, inbound, tasks>>

\* ------------------------------------------ complete_reservation_atomic
\* price = float(number.price_override or service.default_price)
Price(num) ==
    IF num.price_override = <<>> \/ num.price_override[1] = 0
    THEN DefaultPrice
    ELSE num.price_override[1]

\* Variants of the re-check: one that only looks for the row, one that takes an
\* EXPIRED reservation for an open one.
RowFound(v, r) == HasRes(v, r)

NotCompleted(v, r) == HasRes(v, r) /\ v.reservations[r].status \in {"waiting_code", "expired"}

\* The re-check of main.py:1135: the row exists and is WAITING_CODE.
StillWaiting(v, r) == Waiting(v, r)

\* A variant of the balance check that lets every purchase through.
AlwaysAffordable(v, r) == FALSE

\* main.py:1160: float(user.balance or 0) < float(price)
InsufficientBalance(v, r) ==
    v.balance[v.reservations[r].user_id] < Price(v.numbers[v.reservations[r].number_id])

\* A variant of the completion that leaves the Number as it is.
CompleteRowsWithoutNumber(v, r, code) ==
    LET res == v.reservations[r]
        price == Price(v.numbers[res.number_id]) IN
    [v EXCEPT !.balance[res.user_id] = @ - price,
              !.reservations[r].status = "completed",
              !.reservations[r].code_value = code,
              !.reservations[r].completed_at = TRUE,
              !.transactions = AddRow(@, TransactionRow(res.user_id, "purchase", price, r))]

\* The rows after the debit of main.py:1171-1186.
CompleteRows(v, r, code) ==
    LET res == v.reservations[r]
        price == Price(v.numbers[res.number_id]) IN
    [v EXCEPT !.balance[res.user_id] = @ - price,
              !.reservations[r].status = "completed",
              !.reservations[r].code_value = code,
              !.reservations[r].completed_at = TRUE,
              !.numbers[res.number_id].status = "used",
              !.transactions = AddRow(@, TransactionRow(res.user_id, "purchase", price, r))]

\* A variant of the insufficient-balance branch that leaves the reservation open.
InsufficientRowsStillOpen(v, r) == v

\* The rows after the insufficient-balance branch of main.py:1160-1163.
InsufficientRows(v, r) == [v EXCEPT !.reservations[r].status = "expired"]

\* A variant of the count that takes a Number of any status for a remaining one.
NumbersLeft(v, n) ==
    {m \in Numbers : v.numbers[m].present /\ CountryOf(m) = CountryOf(n) /\ m /= n}

\* remaining_numbers of main.py:1188-1193: the AVAILABLE Numbers of the same
\* service and country other than the completed one.
RemainingNumbers(v, n) ==
    {m \in Numbers : /\ v.numbers[m].present
                     /\ CountryOf(m) = CountryOf(n)
                     /\ v.numbers[m].status = "available"
                     /\ m /= n}

Returned(r, ret, outcome) ==
    lastCall' = [rid |-> r, ret |-> ret, outcome |-> outcome, lowStock |-> "none"]

\* main.py:1196-1218: the user is notified; if that send raises, the except
\* returns False and nothing more happens.  Otherwise, with no Number remaining,
\* notify_admin_low_stock runs and catches the failure of its own send.
ReturnedCompleted(r, notifyOk, remaining) ==
    \E adminOk \in BOOLEAN :
        lastCall' = [rid |-> r, ret |-> notifyOk, outcome |-> "completed",
                     lowStock |-> IF ~notifyOk \/ remaining /= {} THEN "none"
                                  ELSE IF adminOk THEN "sent" ELSE "failed"]

\* inTx: the session already has a transaction in progress when db.begin() runs.
\* conflict: the store raises (lock contention, serialization failure) while
\* the rows are locked: except -> db.rollback(), return False (main.py:1220-1223).
CompleteOn(v, inTx, r, code, notifyOk) ==
    /\ IF inTx
       THEN \* db.begin() raises: except -> db.rollback(), return False, finally close
            /\ db_rollback_close
            /\ Returned(r, FALSE, "begin_error")
            /\ acquired' = <<>>
       ELSE IF ~StillWaiting(v, r)
       THEN /\ db_rollback_close
            /\ Returned(r, FALSE, "already_final")
            /\ acquired' = IF HasRes(v, r) THEN <<"reservation">> ELSE <<>>
       ELSE \/ /\ db_rollback_close
               /\ Returned(r, FALSE, "conflict")
               /\ acquired' = <<>>
            \/ IF ~v.numbers[v.reservations[r].number_id].present
               THEN /\ db_rollback_close
                    /\ Returned(r, FALSE, "missing_row")
                    /\ acquired' = <<"reservation", "user">>
               ELSE /\ acquired' = CompleteLocks
                    /\ IF InsufficientBalance(v, r)
                       THEN /\ db_commit(InsufficientRows(v, r))
                            /\ Returned(r, FALSE, "insufficient")
                       ELSE /\ db_commit(CompleteRows(v, r, code))
                            /\ ReturnedCompleted(r, notifyOk,
                                   RemainingNumbers(CompleteRows(v, r, code),
                                                    v.reservations[r].number_id))
    /\ UNCHANGED dueUpTo

\* Complete as a handler calls it: on the rows as the shared session sees them.
CompleteFrom(inTx, r, code, notifyOk) == CompleteOn(sess, inTx, r, code, notifyOk)

complete_reservation_atomic(r, code, notifyOk) ==
    /\ CompleteFrom(txActive, r, code, notifyOk)
    /\ UNCHANGED <<inbound, tasks>>

\* ------------------------------------------- check_expired_reservations
Orderings(S) ==
    {f \in [1 .. Cardinality(S) -> S] : \A i, j \in 1 .. Cardinality(S) : i /= j => f[i] /= f[j]}

\* main.py:1335: WAITING_CODE and expired_at < now, as the session sees the rows.
DueReservations(v) ==
    {r \in 1 .. Len(v.reservations) : Waiting(v, r) /\ v.reservations[r].expired_at <= dueUpTo}

\* A variant of the release that leaves the owner on the Number.
ReleaseKeepsOwner(v, n) ==
    [v EXCEPT !.numbers[n].status = "available",
              !.numbers[n].expires_at = 0]

ReleaseNumber(v, n) ==
    [v EXCEPT !.numbers[n].status = "available",
              !.numbers[n].reserved_by = 0,
              !.numbers[n].expires_at = 0]

\* One turn of the loop of main.py:1340-1350 on the ORM object e, up to the await.
\* An attached object writes through to the session and reads the session's row;
\* a detached one changes nothing in the store and reads what it had in memory.
SweepOne(v, e) ==
    LET attached == e.st \in {"A", "AE"}
        nid == IF attached THEN v.reservations[e.id].number_id ELSE e.number_id
        v1 == IF attached THEN [v EXCEPT !.reservations[e.id].status = "expired"] ELSE v
    IN  IF v1.numbers[nid].present THEN ReleaseNumber(v1, nid) ELSE v1

SweepIdle == [pc |-> "sleep", list |-> <<>>]

\* The loop wakes up: the query, then the first reservation up to its send_message.
SweepStart ==
    /\ sweep.pc = "sleep"
    /\ IF DueReservations(sess) = {}
       THEN /\ db' = sess /\ sess' = sess /\ txActive' = FALSE /\ sweep' = SweepIdle
            /\ objs_commit_close
       ELSE \E ord \in Orderings(DueReservations(sess)) :
              /\ sess' = SweepOne(sess, Entry(ord[1], sess.reservations[ord[1]].number_id))
              /\ db' = db
              /\ txActive' = TRUE
              /\ UNCHANGED <<held, provs>>
              /\ sweep' = [pc |-> "send",
                           list |-> [i \in 1 .. Len(ord) - 1 |->
                                       Entry(ord[i + 1], sess.reservations[ord[i + 1]].number_id)]]
    /\ acquired' = IF DueReservations(sess) = {} THEN <<>> ELSE SweepLocks
    /\ lastCall' = NoCall /\ UNCHANGED <<dueUpTo, inbound, tasks>>

\* send_message returns (or raises): the next reservation, or the commit of
\* main.py:1366; an exception leaves through finally: db.close().
SweepNext(sendOk) ==
    /\ sweep.pc = "send"
    /\ IF ~sendOk \/ (sweep.list /= <<>> /\ Head(sweep.list).st = "DE")
       THEN /\ db' = db /\ sess' = db /\ txActive' = FALSE /\ sweep' = SweepIdle
            /\ objs_close
       ELSE IF sweep.list = <<>>
       THEN /\ db' = sess /\ sess' = sess /\ txActive' = FALSE /\ sweep' = SweepIdle
            /\ objs_commit_close
       ELSE /\ sess' = SweepOne(sess, Head(sweep.list))
            /\ db' = db
            /\ txActive' = TRUE
            /\ UNCHANGED <<held, provs>>
            /\ sweep' = [sweep EXCEPT !.list = Tail(@)]
    /\ acquired' = IF ~sendOk \/ sweep.list = <<>> \/ Head(sweep.list).st \notin {"A", "AE"}
                   THEN <<>> ELSE SweepLocks
    /\ lastCall' = NoCall /\ UNCHANGED <<dueUpTo, inbound, tasks>>

\* ------------------------------------------------ change_number_handler
\* A variant of the search for a new Number that also takes the current one.
AnyNumber(v, n) == AvailableNumbers(v, CountryOf(n))

OtherNumbers(v, n) == AvailableNumbers(v, CountryOf(n)) \ {n}

change_number_handler(r) ==
    /\ IF ~Waiting(sess, r)
       THEN db_leave_open
       ELSE LET res == sess.reservations[r]
                cur == res.number_id
                released == ReleaseNumber(sess, cur)
            IN  IF ~sess.numbers[cur].present
                THEN db_close  \* current_number is None: AttributeError, finally close
                ELSE IF OtherNumbers(released, cur) = {}
                THEN db_commit([released EXCEPT !.numbers[cur].status = "reserved",
                                                !.numbers[cur].reserved_by = res.user_id,
                                                !.numbers[cur].expires_at = res.expired_at])
                ELSE \E new \in OtherNumbers(released, cur) :
                       db_commit([released EXCEPT !.reservations[r].number_id = new,
                                                  !.numbers[new].status = "reserved",
                                                  !.numbers[new].reserved_by = res.user_id,
                                                  !.numbers[new].expires_at = res.expired_at])
    /\ acquired' = IF ~Waiting(sess, r) \/ ~sess.numbers[sess.reservations[r].number_id].present
                   THEN <<>>
                   ELSE IF OtherNumbers(ReleaseNumber(sess, sess.reservations[r].number_id),
                                        sess.reservations[r].number_id) = {}
                   THEN <<"number">> ELSE ChangeNumberLocks
    /\ lastCall' = NoCall /\ UNCHANGED <<dueUpTo, inbound, tasks>>

\* ----------------------------------------------- change_country_handler
change_country_handler(r) ==
    /\ IF ~HasRes(sess, r)
       THEN db_leave_open
       ELSE LET cur == sess.reservations[r].number_id
                v1 == IF sess.numbers[cur].present THEN ReleaseNumber(sess, cur) ELSE sess
            IN  db_commit([v1 EXCEPT !.reservations[r] = DeletedReservation])
    /\ acquired' = IF ~HasRes(sess, r) THEN <<>>
                   ELSE IF sess.numbers[sess.reservations[r].number_id].present
                   THEN ChangeCountryLocks ELSE <<"reservation">>
    /\ lastCall' = NoCall /\ UNCHANGED <<dueUpTo, inbound, tasks>>

\* ------------------------------------------------ handle_balance_amount
AdminRows(table) == {t \in BagToSet(table) : t.type \in {"add", "deduct"}}

RECURSIVE CopiesOf(_, _)
CopiesOf(table, rows) ==
    IF rows = {} THEN 0
    ELSE LET t == CHOOSE x \in rows : TRUE
         IN  CopiesIn(t, table) + CopiesOf(table, rows \ {t})

handle_balance_amount(u, action, amount) ==
    /\ CopiesOf(sess.transactions, AdminRows(sess.transactions)) < MaxAdminTx
    /\ IF action = "add"
       THEN /\ sess.balance[u] + amount <= MaxBalance
            /\ db_commit([sess EXCEPT !.balance[u] = @ + amount,
                                      !.transactions = AddRow(@, TransactionRow(u, "add", amount, 0))])
       ELSE IF sess.balance[u] < amount
       THEN db_leave_open
       ELSE db_commit([sess EXCEPT !.balance[u] = @ - amount,
                                   !.transactions = AddRow(@, TransactionRow(u, "deduct", amount, 0))])
    /\ acquired' = IF action = "deduct" /\ sess.balance[u] < amount THEN <<>> ELSE BalanceLocks
    /\ lastCall' = NoCall /\ UNCHANGED <<dueUpTo, inbound, tasks>>

\* ----------------------------------------- admin_cleanup_numbers_handler
\* old: the USED numbers whose code_received_at is before the 7-day cutoff.
\* fk: the database enforces reservations.number_id -> numbers.id (PostgreSQL) or
\* not (SQLite without the pragma); with it the bulk DELETE of a referenced number
\* raises IntegrityError: except -> db.rollback(), finally close.
Referenced(v, n) == \E r \in 1 .. Len(v.reservations) : HasRes(v, r) /\ v.reservations[r].number_id = n

ResetExpired(v, rs) ==
    [v EXCEPT !.reservations = [r \in DOMAIN @ |->
                                  IF r \in rs THEN [@[r] EXCEPT !.status = "expired"] ELSE @[r]],
              !.numbers = [n \in DOMAIN @ |->
                             IF @[n].present /\ \E r \in rs : v.reservations[r].number_id = n
                             THEN [@[n] EXCEPT !.status = "available", !.reserved_by = 0,
                                               !.expires_at = 0]
                             ELSE @[n]]]

admin_cleanup_numbers_handler(old, fk) ==
    /\ \A n \in old : sess.numbers[n].present /\ sess.numbers[n].status = "used"
    /\ IF fk /\ \E n \in old : Referenced(sess, n)
       THEN db_rollback_close
       ELSE LET v1 == [sess EXCEPT !.numbers = [n \in DOMAIN @ |->
                                       IF n \in old THEN DeletedNumber ELSE @[n]]]
            IN  db_commit(ResetExpired(v1, DueReservations(v1)))
    /\ acquired' = IF old = {} THEN <<>>
                   ELSE IF DueReservations(sess) = {} THEN <<"number">> ELSE CleanupLocks
    /\ lastCall' = NoCall /\ UNCHANGED <<dueUpTo, inbound, tasks>>

\* ---------------------------------------------------------- environment
\* Time passes: the next reservation's expired_at is now in the past.
TimePasses ==
    /\ dueUpTo < Len(db.reservations)
    /\ dueUpTo' = dueUpTo + 1
    /\ acquired' = <<>>
    /\ lastCall' = NoCall /\ UNCHANGED <<db, sess, txActive, sweep, held, provs, inbound, tasks>>

\* Some handler reaches its finally: db.close() (a read-only handler such as
\* get_user_language, or the end of a handler that was awaiting a send), after
\* its except: db.rollback() when failed is TRUE.
SessionClose(failed) ==
    /\ IF failed THEN db_rollback_close ELSE db_close
    /\ acquired' = <<>>
    /\ lastCall' = NoCall /\ UNCHANGED <<dueUpTo, inbound, tasks>>

Next ==
    \/ \E u \in Users, c \in Countries : reserve_number(u, c)
    \/ \E r \in ResIds, code \in Codes, ok \in BOOLEAN :
          complete_reservation_atomic(r, code, ok)
    \/ SweepStart
    \/ \E ok \in BOOLEAN : SweepNext(ok)
    \/ \E r \in ResIds : change_number_handler(r)
    \/ \E r \in ResIds : change_country_handler(r)
    \/ \E u \in Users, a \in {"add", "deduct"}, m \in 1 .. MaxAmount :
          handle_balance_amount(u, a, m)
    \/ \E old \in SUBSET Numbers, fk \in BOOLEAN : admin_cleanup_numbers_handler(old, fk)
    \/ TimePasses
    \/ \E failed \in BOOLEAN : SessionClose(failed)

Spec == Init /\ [][Next]_vars

\* ------------------------------------------------------------ the ledger
PurchaseRows(v, r) == {t \in BagToSet(v.transactions) : t.type = "purchase" /\ t.rid = r}

\* How many purchase Transactions the completion of reservation r has written.
Purchases(v, r) == CopiesOf(v.transactions, PurchaseRows(v, r))

\* The owner and the price of reservation r, as the rows v give them.
OwnerOf(v, r) == v.reservations[r].user_id

PriceOf(v, r) == Price(v.numbers[v.reservations[r].number_id])

\* Complete got past db.begin() and found every row it locks, and the store
\* raised no error while it did.
CompleteRuns(r) ==
    /\ ~txActive
    /\ StillWaiting(db, r)
    /\ db.numbers[db.reservations[r].number_id].present
    /\ lastCall'.outcome /= "conflict"

\* The step is a call complete_reservation_atomic(r, code).
Completing(r) ==
    /\ lastCall'.rid = r
    /\ \E code \in Codes, ok \in BOOLEAN : complete_reservation_atomic(r, code, ok)

\* The WAITING_CODE reservations that reference Number n.
WaitingOn(v, n) == {r \in 1 .. Len(v.reservations) : Waiting(v, r) /\ v.reservations[r].number_id = n}

\* The COMPLETED reservations that reference Number n.
CompletedOn(v, n) ==
    {r \in 1 .. Len(v.reservations) :
        HasRes(v, r) /\ v.reservations[r].status = "completed" /\ v.reservations[r].number_id = n}

\* The step belongs to check_expired_reservations.
Sweeping == SweepStart \/ \E ok \in BOOLEAN : SweepNext(ok)

\* --------------------------------------------------------------- claims
\* C1: for every reservation, at most one purchase Transaction is ever written
\* and the owner's balance is debited at most once for it, however often and by
\* whichever path the code is delivered: the ledger never holds two purchase rows
\* of one reservation, and a step lowers a balance only as an admin deduction or
\* as the completion of a WAITING_CODE reservation that has no purchase row yet,
\* by its price, writing its one purchase row.
C1_AtMostOnePurchase ==
    [][/\ \A r \in ResIds : Purchases(db', r) <= 1 /\ Purchases(sess', r) <= 1
       /\ \A u \in Users :
            db'.balance[u] < db.balance[u] =>
               \/ db'.transactions =
                     AddRow(db.transactions,
                            TransactionRow(u, "deduct", db.balance[u] - db'.balance[u], 0))
               \/ \E r \in ResIds :
                     /\ Completing(r)
                     /\ Waiting(db, r)
                     /\ OwnerOf(db, r) = u
                     /\ Purchases(db, r) = 0
                     /\ Purchases(db', r) = 1
                     /\ db.balance[u] - db'.balance[u] = PriceOf(db, r)]_vars

\* C1 happens: a code was delivered again for a reservation that is already paid
\* for, by a user who could have paid a second time.
C1_DeliveredAgain ==
    /\ lastCall.outcome = "already_final"
    /\ HasRes(db, lastCall.rid)
    /\ Purchases(db, lastCall.rid) = 1
    /\ db.balance[OwnerOf(db, lastCall.rid)] >= PriceOf(db, lastCall.rid)

\* C2: a call of Complete on a reservation that is no longer WAITING_CODE returns
\* False and leaves balance, Transactions, reservation and Number unchanged; a
\* call changes a reservation's status only from WAITING_CODE, so of two calls
\* on one reservation at most one performs a transition.
C2_SecondCompleteIsNoOp ==
    [][\A r \in ResIds :
         Completing(r) =>
            /\ ~Waiting(db, r) => (db' = db /\ lastCall'.ret = FALSE)
            /\ \A q \in 1 .. Len(db.reservations) :
                  db'.reservations[q] /= db.reservations[q] => (q = r /\ Waiting(db, r))]_vars

\* C2 happens: Complete was called on a COMPLETED reservation and reported it final.
C2_CalledOnCompleted ==
    /\ lastCall.outcome = "already_final"
    /\ lastCall.ret = FALSE
    /\ HasRes(db, lastCall.rid)
    /\ db.reservations[lastCall.rid].status = "completed"

\* C3: in every reachable state each Number is referenced by at most one
\* WAITING_CODE reservation.
C3_OneWaitingPerNumber ==
    \A n \in Numbers : Cardinality(WaitingOn(db, n)) <= 1

\* C4: the expiry sweep never takes a COMPLETED reservation out of COMPLETED and
\* never releases its Number: a reservation that is COMPLETED with its Number
\* USED before a step of the sweeper is so after it.
C4_SweepKeepsCompleted ==
    [][Sweeping =>
         \A r \in 1 .. Len(db.reservations) :
            (/\ HasRes(db, r)
             /\ db.reservations[r].status = "completed"
             /\ db.numbers[db.reservations[r].number_id].status = "used")
            => (/\ db'.reservations[r].status = "completed"
                /\ db'.numbers[db.reservations[r].number_id].status = "used")]_vars

\* C5: a Number is RESERVED if and only if some WAITING_CODE reservation
\* references it.
C5_ReservedIffWaiting ==
    \A n \in Numbers :
       (db.numbers[n].present /\ db.numbers[n].status = "reserved") <=> WaitingOn(db, n) /= {}

\* C6: a Number is USED if and only if a COMPLETED reservation references it, and
\* every reservation that was completed (its purchase is in the ledger) still
\* exists, is COMPLETED and references a USED Number.
C6_UsedIffCompleted ==
    /\ \A n \in Numbers :
          (db.numbers[n].present /\ db.numbers[n].status = "used") <=> CompletedOn(db, n) /= {}
    /\ \A r \in ResIds :
          Purchases(db, r) > 0 =>
             /\ HasRes(db, r)
             /\ db.reservations[r].status = "completed"
             /\ db.numbers[db.reservations[r].number_id].status = "used"

\* C7: a user's balance is never negative, in the committed rows and in what the
\* session holds uncommitted: completions for one user run one after the other
\* and each checks the funds the earlier ones left.
C7_BalanceNeverNegative ==
    \A u \in Users : db.balance[u] >= 0 /\ sess.balance[u] >= 0

\* C7 happens: a user who paid for one reservation is refused a second one that
\* the funds left no longer cover.
C7_SecondPurchaseRefused ==
    /\ lastCall.outcome = "insufficient"
    /\ \E q \in 1 .. Len(db.reservations) :
          /\ q /= lastCall.rid
          /\ HasRes(db, q)
          /\ db.reservations[q].status = "completed"
          /\ OwnerOf(db, q) = OwnerOf(db, lastCall.rid)
    /\ db.balance[OwnerOf(db, lastCall.rid)] < PriceOf(db, lastCall.rid)

\* C8: once a reservation has left WAITING_CODE (COMPLETED or EXPIRED) no
\* operation modifies or removes it.
C8_TerminalIsFinal ==
    [][\A r \in 1 .. Len(db.reservations) :
         (HasRes(db, r) /\ ~Waiting(db, r)) => db'.reservations[r] = db.reservations[r]]_vars

\* C9: when Complete finds the reservation WAITING_CODE and the balance covers
\* the price, one step commits all of: the balance less the price, one purchase
\* Transaction of that amount, the reservation COMPLETED with the code and its
\* completion time, the Number USED; and neither the committed rows nor the
\* session ever show a reservation COMPLETED without its code or its purchase.
C9_CompleteIsOneStep ==
    [][/\ \A r \in ResIds :
            (CompleteRuns(r) /\ db.balance[OwnerOf(db, r)] >= PriceOf(db, r) /\ Completing(r)) =>
               /\ db'.balance[OwnerOf(db, r)] = db.balance[OwnerOf(db, r)] - PriceOf(db, r)
               /\ db'.transactions =
                     db.transactions (+) SetToBag({[user_id |-> OwnerOf(db, r), type |-> "purchase",
                                                    amount |-> PriceOf(db, r), rid |-> r]})
               /\ db'.reservations[r].status = "completed"
               /\ db'.reservations[r].code_value \in Codes
               /\ db'.reservations[r].completed_at
               /\ db'.numbers[db.reservations[r].number_id].status = "used"
               /\ sess' = db'
       /\ \A r \in 1 .. Len(db'.reservations) :
            \A v \in {db', sess'} :
               (HasRes(v, r) /\ v.reservations[r].status = "completed") <=>
                  (HasRes(v, r) /\ Purchases(v, r) = 1 /\ v.reservations[r].code_value \in Codes
                                /\ v.reservations[r].completed_at)]_vars

\* C9 happens: Complete has just succeeded.
C9_Completed ==
    /\ lastCall.outcome = "completed"
    /\ lastCall.ret
    /\ db.reservations[lastCall.rid].status = "completed"
    /\ db.numbers[db.reservations[lastCall.rid].number_id].status = "used"
    /\ Purchases(db, lastCall.rid) = 1

\* C10: when Complete finds the reservation WAITING_CODE and the balance below
\* the price, it sets the reservation EXPIRED and returns False with the
\* Transactions and every balance unchanged; and a later Complete on that
\* reservation changes nothing, whatever the balance is by then.
C10_InsufficientBalanceExpires ==
    [][\A r \in ResIds :
         Completing(r) =>
            /\ (CompleteRuns(r) /\ db.balance[OwnerOf(db, r)] < PriceOf(db, r)) =>
                  /\ db'.reservations[r].status = "expired"
                  /\ lastCall'.ret = FALSE
                  /\ db'.transactions = db.transactions
                  /\ db'.balance = db.balance
            /\ (HasRes(db, r) /\ db.reservations[r].status = "expired") =>
                  (db' = db /\ lastCall'.ret = FALSE)]_vars

\* C10 happens: Complete has just refused a reservation for lack of funds.
C10_Refused ==
    /\ lastCall.outcome = "insufficient"
    /\ lastCall.ret = FALSE
    /\ db.reservations[lastCall.rid].status = "expired"
    /\ Purchases(db, lastCall.rid) = 0

\* ------------------------------------------------------------- fairness
\* main.py:5828 starts check_expired_reservations as a task of its own and its
\* loop never ends (main.py:1330, 1371-1374): the sweeper keeps being scheduled.
\* Nothing makes a send_message succeed.
SweeperScheduled ==
    /\ WF_vars(SweepStart)
    /\ WF_vars(\E ok \in BOOLEAN : SweepNext(ok))

LiveSpec == Init /\ [][Next]_vars /\ SweeperScheduled

\* C11: every reservation that is WAITING_CODE past its expiry time eventually
\* leaves WAITING_CODE, with the sweeper kept scheduled.
C11_ExpiredEventually ==
    \A r \in ResIds : (Waiting(db, r) /\ r <= dueUpTo) ~> ~Waiting(db, r)

\* C12: a notification that fails to send never undoes or prevents the transition
\* it reports: when a send of the sweeper fails, the expiries the sweeper had made
\* by then are committed; when the send of Complete fails, the completion is.
C12_SendFailureKeepsTransition ==
    [][/\ (sweep.pc = "send" /\ SweepNext(FALSE)) =>
             \A r \in 1 .. Len(sess.reservations) :
                (HasRes(sess, r) /\ sess.reservations[r].status = "expired")
                   => db'.reservations[r].status = "expired"
       /\ \A r \in ResIds :
             (Completing(r) /\ lastCall'.outcome \in {"completed", "insufficient"} /\ ~lastCall'.ret)
                => db'.reservations[r].status \in {"completed", "expired"}]_vars

\* C13: a user-initiated release acts only on a WAITING_CODE reservation: on one
\* that is COMPLETED or EXPIRED change_country_handler and change_number_handler
\* change neither the reservation nor any Number.
C13_ReleaseOnlyWhenWaiting ==
    [][\A r \in 1 .. Len(db.reservations) :
         (/\ HasRes(db, r) /\ ~Waiting(db, r)
          /\ HasRes(sess, r) /\ ~Waiting(sess, r)
          /\ (change_country_handler(r) \/ change_number_handler(r)))
         => (db'.reservations[r] = db.reservations[r] /\ db'.numbers = db.numbers)]_vars

\* ------------------------------------------ process_incoming_group_message
\* One inbound message of a registered group: the group's security_mode,
\* secret_token and regex_pattern, and the text.
Message(mode, secret, text, regex) ==
    [mode |-> mode, secret |-> secret, text |-> text, regex |-> regex]

PlainTexts ==
    {t \in UnsignedTexts : t.to.kind \in {"none", "plain"} /\ t.code.kind \in {"none", "plain"}
                           /\ t.code.c <= 1}

\* A text signed with the first secret, at the present minute or too long ago.
HmacTexts ==
    {Text([kind |-> "plain", n |-> 1], [kind |-> "plain", c |-> 1], TRUE, ts, TRUE,
          Digest(1, 1, 1, ts)) : ts \in {Now, Now - MESSAGE_TIMESTAMP_WINDOW_MIN - 1}}

Messages ==
    {Message(m, 0, t, "digits") : m \in {"token_only", "admin_only"}, t \in PlainTexts}
    \cup {Message("hmac", 1, t, "digits") : t \in HmacTexts}

ProviderMessageUnmarked(msg) == [status |-> "orphan", mode |-> msg.mode]

\* ProviderMessage(..., status=MessageStatus.PENDING)
ProviderMessage(msg) == [status |-> "pending", mode |-> msg.mode]

BlockedMessage(id, reason) == [message |-> id, reason |-> reason]

\* provider_msg.status = ...: flushed by the next commit only if the object is
\* still in the session.
Marked(status) ==
    IF held \in {"A", "AE"} THEN [audit EXCEPT ![ing.id].status = status] ELSE audit

\* 1886-1914: the group is found, the audit record is added and committed.  The
\* commit is of the shared session, with whatever it holds.
IngestReceive(msg) ==
    /\ ing.pc = "idle"
    /\ Len(audit) < MaxMessages
    /\ audit' = Append(audit, ProviderMessage(msg))
    /\ ing' = [pc |-> "verify", id |-> Len(audit) + 1, msg |-> msg, verdict |-> Verdict(FALSE, "none")]
    /\ db' = sess
    /\ sess' = sess
    /\ txActive' = FALSE
    /\ sweep' = Committed(sweep, sess)
    /\ held' = "AE"
    /\ provs' = [p \in DOMAIN provs |-> Expired(provs[p])]
    /\ lastCall' = NoCall /\ acquired' = <<>>
    /\ UNCHANGED <<dueUpTo, blocked, probe, tasks>>

\* 1917, 2019-2044: verify_message_security reads service_group.security_mode,
\* which loads the expired object in a new transaction; in ADMIN_ONLY mode it then
\* awaits bot.get_chat_member, in every other mode it returns without suspending.
IngestVerify ==
    /\ ing.pc = "verify"
    /\ ing' = IF ing.msg.mode = "admin_only"
              THEN [ing EXCEPT !.pc = "lookup"]
              ELSE [ing EXCEPT !.pc = "decide",
                               !.verdict = verify_message_security(ing.msg.mode, ing.msg.secret,
                                                                   ing.msg.text, Now, "member")]
    /\ held' = "A"
    /\ txActive' = TRUE
    /\ lastCall' = NoCall /\ acquired' = <<>>
    /\ UNCHANGED <<db, sess, sweep, provs, dueUpTo, audit, blocked, probe, tasks>>

\* 863-870, 2029-2033: bot.get_chat_member returns or raises.
IngestLookup(lookup) ==
    /\ ing.pc = "lookup"
    /\ ing' = [ing EXCEPT !.pc = "decide",
                          !.verdict = verify_message_security("admin_only", ing.msg.secret,
                                                              ing.msg.text, Now, lookup)]
    /\ lastCall' = NoCall /\ acquired' = <<>>
    /\ UNCHANGED <<db, sess, txActive, sweep, held, provs, dueUpTo, audit, blocked, probe, tasks>>

\* db.query(Number).filter(phone_number == number, service_id == ...).first()
NumberOf(v, phone) == {n \in Numbers : n = phone /\ v.numbers[n].present}

\* db.query(Reservation).filter(number_id == ..., status == WAITING_CODE).first()
FirstWaiting(v, n) == CHOOSE r \in WaitingOn(v, n) : \A q \in WaitingOn(v, n) : r <= q

\* 2013-2017: an exception leaves through except: db.rollback(), finally: db.close().
IngestFailed ==
    /\ db_rollback_close
    /\ lastCall' = NoCall /\ acquired' = <<>>
    /\ UNCHANGED <<dueUpTo, audit, blocked>>

\* 1923-1935, 1942-1953: a blocked message is added, the audit record is marked
\* REJECTED, both are committed.
IngestBlocked(reason) ==
    /\ blocked' = Append(blocked, BlockedMessage(ing.id, reason))
    /\ audit' = Marked("rejected")
    /\ db_commit_close(sess)
    /\ lastCall' = NoCall /\ acquired' = <<>>
    /\ UNCHANGED dueUpTo

\* 1964-1968, 1979-1990: the audit record is marked ORPHAN and committed.
IngestOrphan ==
    /\ audit' = Marked("orphan")
    /\ db_commit_close(sess)
    /\ lastCall' = NoCall /\ acquired' = <<>>
    /\ UNCHANGED <<dueUpTo, blocked>>

\* 1995-2011: the two queries above have begun a transaction of the shared
\* session, so complete_reservation_atomic is entered with one in progress.  It
\* returns with the session rolled back and closed: the service group object is
\* expired and detached, and reading service_group.service_id for the blocked
\* message (2002-2003) raises DetachedInstanceError, caught at 2013.
IngestComplete(r, code) ==
    /\ CompleteFrom(TRUE, r, code, TRUE)
    /\ UNCHANGED <<audit, blocked>>

\* 1921-2017, from the return of the verifier to the end of the handler, without
\* an await that suspends.  An attribute of the service group can be read when
\* the object is attached or was loaded before it was detached.
IngestDecide ==
    /\ ing.pc = "decide"
    /\ ing' = IngestIdle
    /\ UNCHANGED <<probe, tasks>>
    /\ IF held = "DE"
       THEN IngestFailed
       ELSE IF ~ing.verdict.valid
       THEN IngestBlocked(ing.verdict.reason)
       ELSE LET pair == extract_number_and_code(ing.msg.text, ing.msg.regex)
            IN  IF pair[1] = 0 \/ pair[2] = 0
                THEN IngestBlocked("no_number_or_no_code")
                ELSE IF NumberOf(sess, pair[1]) = {}
                THEN IngestOrphan
                ELSE IF WaitingOn(sess, pair[1]) = {}
                THEN IngestOrphan
                ELSE IngestComplete(FirstWaiting(sess, pair[1]), pair[2])

\* A handler runs from one await to the next without interruption: ingestion can
\* be interleaved with the other handlers only while it awaits the lookup.
IngestYields == ing.pc \in {"idle", "lookup"}

IngestNext ==
    \/ \E msg \in Messages : IngestReceive(msg)
    \/ IngestVerify
    \/ \E l \in Lookups : IngestLookup(l)
    \/ IngestDecide
    \/ IngestYields /\ \E u \in Users, c \in Countries : reserve_number(u, c)
    \/ IngestYields /\ SweepStart
    \/ IngestYields /\ \E ok \in BOOLEAN : SweepNext(ok)
    \/ IngestYields /\ TimePasses
    \/ IngestYields /\ \E failed \in BOOLEAN : SessionClose(failed)

IngestSpec == Init /\ [][IngestNext]_vars

\* The step is the end of ingestion of a message.
Decided == ing.pc = "decide" /\ ing'.pc = "idle"

\* What the extractor finds in the message being ingested.
Found == extract_number_and_code(ing.msg.text, ing.msg.regex)

\* No row of a Reservation, a Number, a balance or a Transaction changes.
StoreUntouched == db' = db

\* C14: when the verifier rejected the message, the end of ingestion adds one
\* blocked message with the verifier's reason, marks the audit record REJECTED,
\* does not call Complete and changes no Reservation, Number, balance or
\* Transaction.
C14_RejectionIsRecorded ==
    [][(Decided /\ ~ing.verdict.valid) =>
          /\ blocked' = Append(blocked, BlockedMessage(ing.id, ing.verdict.reason))
          /\ audit'[ing.id].status = "rejected"
          /\ lastCall' = NoCall
          /\ StoreUntouched]_vars

\* C15: for a verified message, when the phone or the code is not found the
\* audit record is marked REJECTED and a blocked message with reason
\* no_number_or_no_code is added; when the phone is of no Number, or of a Number
\* without a WAITING_CODE reservation, the audit record is marked ORPHAN,
\* Complete is not called and no Reservation, Number, balance or Transaction
\* changes.
C15_OrphanOrRejected ==
    [][(Decided /\ ing.verdict.valid) =>
          /\ (Found[1] = 0 \/ Found[2] = 0) =>
                /\ audit'[ing.id].status = "rejected"
                /\ blocked' = Append(blocked, BlockedMessage(ing.id, "no_number_or_no_code"))
          /\ (/\ Found[1] /= 0 /\ Found[2] /= 0
              /\ \/ NumberOf(sess, Found[1]) = {} /\ NumberOf(db, Found[1]) = {}
                 \/ WaitingOn(sess, Found[1]) = {} /\ WaitingOn(db, Found[1]) = {}) =>
                /\ audit'[ing.id].status = "orphan"
                /\ lastCall' = NoCall
                /\ StoreUntouched]_vars

\* C16: when ingestion called Complete, the audit record ends PROCESSED exactly
\* when that call completed the reservation, and REJECTED exactly when it did
\* not.
C16_AuditFollowsComplete ==
    [][(Decided /\ lastCall' /= NoCall) =>
          LET r == lastCall'.rid
              completed == /\ db.reservations[r].status = "waiting_code"
                           /\ db'.reservations[r].status = "completed"
          IN  /\ (audit'[ing.id].status = "processed") <=> completed
              /\ (audit'[ing.id].status = "rejected") <=> ~completed]_vars

\* C17: an audit record is created only by the first step of ingestion, one per
\* message and with status PENDING, before the verifier, the extractor and
\* Complete run for that message; its status changes only from PENDING, to
\* PROCESSED, REJECTED or ORPHAN, so at most once.
C17_PendingFirstThenOnce ==
    [][/\ Len(audit') \in {Len(audit), Len(audit) + 1}
       /\ \A i \in 1 .. Len(audit) :
             audit'[i].status /= audit[i].status =>
                /\ audit[i].status = "pending"
                /\ audit'[i].status \in {"processed", "rejected", "orphan"}
       /\ (ing.pc = "idle" /\ ing'.pc /= "idle") <=> (Len(audit') = Len(audit) + 1)
       /\ Len(audit') = Len(audit) + 1 =>
             /\ audit'[Len(audit')].status = "pending"
             /\ ing'.pc = "verify" /\ ing'.id = Len(audit')
       /\ ing.pc \in {"verify", "lookup", "decide"} =>
             /\ ing.id \in 1 .. Len(audit)
             /\ audit[ing.id].status = "pending"]_vars

C17_StatusChanged ==
    /\ ing.pc = "idle"
    /\ \E i \in 1 .. Len(audit) : audit[i].status = "rejected"
    /\ \E i \in 1 .. Len(audit) : audit[i].status = "orphan"

\* ------------------------------------------------- the extractor's regexes
\* A text as a sequence of characters: the letters of a label are one character
\* ("to:" and "code:" in lower case, "TO:" and "CODE:" in another case), "x" is
\* any other letter, "1" and "2" are digits, " " is white space.
Digit == {"1", "2"}

ToLabel == {"to:", "TO:"}

CodeLabel == {"code:", "CODE:"}

\* re.sub(r'[\s\-\(\)]', '', phone)
RECURSIVE Stripped(_)
Stripped(phone) ==
    IF phone = <<>> THEN <<>>
    ELSE IF Head(phone) \in {" ", "-", "(", ")"} THEN Stripped(Tail(phone))
    ELSE <<Head(phone)>> \o Stripped(Tail(phone))

normalize_phone_number(phone) ==
    LET bare == Stripped(phone)
    IN  IF bare /= <<>> /\ Head(bare) = "+" THEN bare ELSE <<"+">> \o bare

\* \s*: the first position from i on that is not white space.
RECURSIVE SkipSpace(_, _)
SkipSpace(s, i) ==
    IF i <= Len(s) /\ s[i] = " " THEN SkipSpace(s, i + 1) ELSE i

\* \d+ is greedy: the first position from i on that is not a digit.
RECURSIVE SkipDigits(_, _)
SkipDigits(s, i) ==
    IF i <= Len(s) /\ s[i] \in Digit THEN SkipDigits(s, i + 1) ELSE i

\* The group of r'to:\s*(\+\d+)' matched at position i, <<>> if none.
ToAt(s, i) ==
    IF s[i] \notin ToLabel THEN <<>>
    ELSE LET j == SkipSpace(s, i + 1)
         IN  IF j <= Len(s) /\ s[j] = "+" /\ SkipDigits(s, j + 1) > j + 1
             THEN SubSeq(s, j, SkipDigits(s, j + 1) - 1)
             ELSE <<>>

\* The group of r'code:\s*(\d+)' matched at position i, <<>> if none.
CodeAt(s, i) ==
    IF s[i] \notin CodeLabel THEN <<>>
    ELSE LET j == SkipSpace(s, i + 1)
         IN  IF SkipDigits(s, j) > j THEN SubSeq(s, j, SkipDigits(s, j) - 1) ELSE <<>>

\* A per-service pattern \b\d{lo,hi}\b matched at position i: a run of digits
\* that starts and ends at a word boundary.
RunAt(s, i, pattern) ==
    IF s[i] \notin Digit \/ (i > 1 /\ s[i - 1] \in Digit \cup {"x"}) THEN <<>>
    ELSE LET j == SkipDigits(s, i)
         IN  IF (j - i) \in pattern.lo .. pattern.hi /\ (j > Len(s) \/ s[j] /= "x")
             THEN SubSeq(s, i, j - 1)
             ELSE <<>>

\* Matching without re.IGNORECASE and without \s*.
SearchLowerTo(s) ==
    LET at == {i \in 1 .. Len(s) - 1 : s[i] = "to:" /\ s[i + 1] = "+" /\ ToAt(s, i) /= <<>>}
    IN  IF at = {} THEN <<>> ELSE ToAt(s, CHOOSE i \in at : \A j \in at : i <= j)

\* re.search: the match at the least position, <<>> (None) if there is none.
SearchTo(s) ==
    LET at == {i \in 1 .. Len(s) : ToAt(s, i) /= <<>>}
    IN  IF at = {} THEN <<>> ELSE ToAt(s, CHOOSE i \in at : \A j \in at : i <= j)

SearchCode(s) ==
    LET at == {i \in 1 .. Len(s) : CodeAt(s, i) /= <<>>}
    IN  IF at = {} THEN <<>> ELSE CodeAt(s, CHOOSE i \in at : \A j \in at : i <= j)

SearchRun(s, pattern) ==
    LET at == {i \in 1 .. Len(s) : RunAt(s, i, pattern) /= <<>>}
    IN  IF at = {} THEN <<>> ELSE RunAt(s, CHOOSE i \in at : \A j \in at : i <= j, pattern)

\* A regex_pattern \b\d{lo,hi}\b, or one that re.search cannot compile.
RunPattern(lo, hi) == [ok |-> TRUE, lo |-> lo, hi |-> hi]

Malformed == [ok |-> FALSE, lo |-> 0, hi |-> 0]

\* extract_number_and_code on a sequence of characters; <<>> stands for None.
ExtractFrom(s, pattern) ==
    LET found  == SearchTo(s)
        number == IF found /= <<>> THEN normalize_phone_number(found) ELSE <<>>
    IN  IF SearchCode(s) /= <<>>
        THEN <<number, SearchCode(s)>>
        ELSE IF ~pattern.ok
        THEN <<<<>>, <<>>>>
        ELSE <<number, SearchRun(s, pattern)>>

\* ------------------------------------------- the verifier and the extractor
\* The two pure functions of ingestion, applied to inputs drawn from bounded
\* sets: one service group configuration, one text, one outcome of the
\* membership lookup.
NoVerdict == Verdict(FALSE, "none")

ProbeOf(fn, mode, secret, text, lookup, regex) ==
    [fn |-> fn, mode |-> mode, secret |-> secret, text |-> text, lookup |-> lookup,
     regex |-> regex, done |-> FALSE, verdict |-> NoVerdict, pair |-> <<0, 0>>]

VerifierInputs ==
    {ProbeOf("verify", "hmac", k, t, "member", "digits") : k \in {0} \cup Secrets, t \in Texts}
    \cup {ProbeOf("verify", "admin_only", 0, t, l, "digits") : t \in UnsignedTexts, l \in Lookups}
    \cup {ProbeOf("verify", m, 0, t, "member", "digits") :
             m \in {"token_only", "unset"}, t \in UnsignedTexts}

ExtractorInputs ==
    {ProbeOf("extract", "token_only", 0, t, "member", p) : t \in UnsignedTexts, p \in Patterns}

\* Texts written as characters: noise, a to: field, a code: field or none, noise.
\* The fields come in either order, each label in either letter case, with no,
\* one or two spaces after the colon.
Spaces == {<<>>, <<" ">>, <<" ", " ">>}

PhoneDigits == {<<"1">>, <<"1", "2">>, <<"2", "1", "2">>}

CodeDigits == {<<"1">>, <<"2", "1">>}

Leads == {<<>>, <<"x">>, <<"x", " ">>, <<"1", "2", " ">>}

Trails == {<<>>, <<" ", "x">>, <<" ", "2", "1">>}

ScanParts ==
    [lead : Leads, toLabel : ToLabel, toSpace : Spaces, phone : PhoneDigits,
     hasCode : BOOLEAN, codeLabel : CodeLabel, codeSpace : Spaces, code : CodeDigits,
     codeFirst : BOOLEAN, trail : Trails]

ToField(p) == <<p.toLabel>> \o p.toSpace \o <<"+">> \o p.phone

CodeField(p) == <<p.codeLabel>> \o p.codeSpace \o p.code

Written(p) ==
    IF ~p.hasCode THEN p.lead \o ToField(p) \o p.trail
    ELSE IF p.codeFirst THEN p.lead \o CodeField(p) \o <<" ">> \o ToField(p) \o p.trail
    ELSE p.lead \o ToField(p) \o <<" ">> \o CodeField(p) \o p.trail

ScanPatterns == {RunPattern(2, 2), RunPattern(2, 3), Malformed}

ScanInputs ==
    {[fn |-> "scan", parts |-> p, chars |-> Written(p), regex |-> r, done |-> FALSE,
      pair |-> <<<<>>, <<>>>>] :
        p \in {q \in ScanParts : q.hasCode \/ (q.codeLabel = "code:" /\ q.codeSpace = <<>>
                                               /\ q.code = <<"1">> /\ ~q.codeFirst)},
        r \in ScanPatterns}

PureInit == StoreInit /\ probe \in VerifierInputs \cup ExtractorInputs \cup ScanInputs

Verify ==
    /\ probe.fn = "verify" /\ ~probe.done
    /\ probe' = [probe EXCEPT
                    !.done = TRUE,
                    !.verdict = verify_message_security(probe.mode, probe.secret, probe.text,
                                                        Now, probe.lookup)]
    /\ UNCHANGED <<db, sess, txActive, sweep, dueUpTo, lastCall, audit, blocked, ing, held,
                   watch, poll, provs, acquired, clock>>

Extract ==
    /\ probe.fn = "extract" /\ ~probe.done
    /\ probe' = [probe EXCEPT
                    !.done = TRUE,
                    !.pair = extract_number_and_code(probe.text, probe.regex)]
    /\ UNCHANGED <<db, sess, txActive, sweep, dueUpTo, lastCall, audit, blocked, ing, held,
                   watch, poll, provs, acquired, clock>>

Scan ==
    /\ probe.fn = "scan" /\ ~probe.done
    /\ probe' = [probe EXCEPT !.done = TRUE, !.pair = ExtractFrom(probe.chars, probe.regex)]
    /\ UNCHANGED <<db, sess, txActive, sweep, dueUpTo, lastCall, audit, blocked, ing, held,
                   watch, poll, provs, acquired, clock>>

PureNext == Verify \/ Extract \/ Scan

PureSpec == PureInit /\ [][PureNext]_vars

Verified == probe.fn = "verify" /\ probe.done

Extracted == probe.fn = "extract" /\ probe.done

\* The message is in the inbound format: a to: and a code: field, in any letter
\* case, with or without a space after the colon.
InFormat(text) == text.to.kind \in Labelled /\ text.code.kind \in Labelled

Fresh(text) == text.hasTs /\ Abs(Now - text.ts) <= MESSAGE_TIMESTAMP_WINDOW_MIN

Signed(text, secret) ==
    text.hasHmac /\ text.hmac = Digest(secret, text.to.n, text.code.c, text.ts)

\* C18: in HMAC mode, with a secret configured, the verifier accepts a message
\* only if it has a ts and an hmac field, the ts is within the window and the
\* digest is the HMAC of "<number>|<code>|<timestamp>" for the number and code
\* of the message; and it accepts every message in the inbound format for
\* which all of this holds.
C18_HmacAcceptsIff ==
    (Verified /\ probe.mode = "hmac" /\ probe.secret /= 0) =>
        /\ probe.verdict.valid =>
              (InFormat(probe.text) /\ Fresh(probe.text) /\ Signed(probe.text, probe.secret))
        /\ (InFormat(probe.text) /\ Fresh(probe.text) /\ Signed(probe.text, probe.secret))
              => probe.verdict.valid

\* A failure inside the verifier: a text whose ts, hmac, to or code field the
\* HMAC check cannot parse, a membership lookup that raised, a mode that is
\* none of the three, a secret that is not configured.
VerifierFailure ==
    \/ probe.mode = "unset"
    \/ probe.mode = "hmac" /\ probe.secret = 0
    \/ probe.mode = "hmac" /\ ~(probe.text.hasTs /\ probe.text.hasHmac /\ InFormat(probe.text))
    \/ probe.mode = "admin_only" /\ probe.lookup = "error"

\* C19: every failure inside the verifier yields a rejection, never an acceptance.
C19_FailureRejects ==
    (Verified /\ VerifierFailure) => ~probe.verdict.valid

C19_LookupFailed ==
    /\ Verified /\ probe.mode = "admin_only" /\ probe.lookup = "error"
    /\ probe.verdict = Verdict(FALSE, "not_admin")

\* C20: the extractor returns a phone only together with a code: whenever the
\* phone or the code is missing from what it found, it returns (None, None).
C20_BothOrNeither ==
    Extracted => ((probe.pair[1] = 0) <=> (probe.pair[2] = 0))

Scanned == probe.fn = "scan" /\ probe.done

\* The digit runs of the written text that stand between word boundaries, in
\* the order in which they are written, when the text has no code: field.
BareRuns(p) ==
    (IF p.lead = <<"1", "2", " ">> THEN <<<<"1", "2">>>> ELSE <<>>)
    \o <<p.phone>>
    \o (IF p.trail = <<" ", "2", "1">> THEN <<<<"2", "1">>>> ELSE <<>>)

\* The first of them that the pattern matches, <<>> if none.
FirstRun(p, pattern) ==
    LET fit == {i \in 1 .. Len(BareRuns(p)) : Len(BareRuns(p)[i]) \in pattern.lo .. pattern.hi}
    IN  IF fit = {} THEN <<>> ELSE BareRuns(p)[CHOOSE i \in fit : \A j \in fit : i <= j]

\* C21: from a text with a to:<+digits> field and a code:<digits> field, in
\* either letter case, with or without spaces after the colons and with noise
\* around, the extractor returns that phone with its leading '+' and exactly
\* that code; from a text with a to: field and no code: field it returns as the
\* code the match of the per-service pattern over the whole text.
C21_ExtractsWhatIsWritten ==
    Scanned =>
        /\ probe.parts.hasCode =>
              probe.pair = <<<<"+">> \o probe.parts.phone, probe.parts.code>>
        /\ (~probe.parts.hasCode /\ probe.regex.ok) =>
              probe.pair = <<<<"+">> \o probe.parts.phone, FirstRun(probe.parts, probe.regex)>>

C21_UpperSpacedNoisy ==
    /\ Scanned /\ probe.parts.hasCode
    /\ probe.parts.toLabel = "TO:" /\ probe.parts.codeSpace = <<" ", " ">>
    /\ probe.parts.lead /= <<>> /\ probe.parts.trail /= <<>>
    /\ probe.pair = <<<<"+", "2", "1", "2">>, <<"2", "1">>>>

C27_ConflictIsRetried ==
    [][\A r \in ResIds :
          (/\ Completing(r)
           /\ ~txActive
           /\ StillWaiting(db, r)
           /\ db.numbers[db.reservations[r].number_id].present
           /\ db.balance[OwnerOf(db, r)] >= PriceOf(db, r)) =>
             /\ lastCall'.outcome /= "conflict"
             /\ db'.reservations[r].status = "completed"]_vars

\* ------------------------------------------------------------- lock order
\* The place of a row in the order Reservation, User, Number.
LockRank(row) ==
    CASE row = "reservation" -> 1
      [] row = "user"        -> 2
      [] row = "number"      -> 3

InLockOrder(locks) ==
    \A i, j \in DOMAIN locks : i < j => LockRank(locks[i]) < LockRank(locks[j])

\* The step belongs to a change-number or change-country request.
Changing == \E r \in ResIds : change_number_handler(r) \/ change_country_handler(r)

\* C25: every step of Complete, of the expiry sweeper and of the change-number and
\* change-country handlers locks the rows it writes in the order Reservation,
\* User, Number.
C25_LocksInFixedOrder ==
    [][((\E r \in ResIds : Completing(r)) \/ Sweeping \/ Changing) => InLockOrder(acquired')]_vars

\* ------------------------------------------------- owner and expiry of a Number
OwnerAndExpiry(v) ==
    \A n \in Numbers :
        /\ v.numbers[n].status = "reserved" =>
              v.numbers[n].reserved_by /= 0 /\ v.numbers[n].expires_at /= 0
        /\ v.numbers[n].status = "available" =>
              v.numbers[n].reserved_by = 0 /\ v.numbers[n].expires_at = 0

\* C26: in every reachable state, in the committed rows and in the rows as the
\* session sees them, a RESERVED Number has its owner and its expiry set and an
\* AVAILABLE Number has neither.
C26_ReservedHasOwnerAndExpiry == OwnerAndExpiry(db) /\ OwnerAndExpiry(sess)

\* change_number_handler found no other Number and restored the original one.
C26_OriginalRestored ==
    /\ acquired = <<"number">>
    /\ \A n \in Numbers : db.numbers[n].present /\ db.numbers[n].status /= "available"
    /\ \E n \in Numbers : db.numbers[n].status = "reserved" /\ WaitingOn(db, n) /= {}

\* ------------------------------------------------------- the price of a Number
\* Number.price_override is a nullable DECIMAL(12, 2): a Number has no override
\* (<<>>), an override of 0, or a positive one.
PriceOverrides == {<<>>, <<0>>, <<OverridePrice>>}

PriceInit ==
    /\ db \in {StoreRows(ov) : ov \in [Numbers -> PriceOverrides]}
    /\ audit = <<>>
    /\ probe = NoProbe
    /\ Quiet

PriceNext ==
    \/ \E u \in Users, c \in Countries : reserve_number(u, c)
    \/ \E u \in Users, a \in {"add", "deduct"}, m \in 1 .. MaxAmount :
          handle_balance_amount(u, a, m)
    \/ \E r \in ResIds, code \in Codes, ok \in BOOLEAN :
          complete_reservation_atomic(r, code, ok)
    \/ \E failed \in BOOLEAN : SessionClose(failed)

PriceSpec == PriceInit /\ [][PriceNext]_vars

\* The price the Number of reservation r should cost: its override when it has one.
OverrideOrDefault(v, r) ==
    LET num == v.numbers[v.reservations[r].number_id] IN
    IF num.price_override /= <<>> THEN num.price_override[1] ELSE DefaultPrice

\* C30: when Complete runs for a reservation, the price it compares with the
\* balance and debits is the Number's price override whenever the Number has one,
\* whatever its value, and the default price only when it has none: a balance of
\* at least that price is debited by it and the reservation completed, a smaller
\* balance is left as it is and the reservation expired.
C30_OverrideIsThePrice ==
    [][\A r \in ResIds :
          (CompleteRuns(r) /\ Completing(r)) =>
             IF db.balance[OwnerOf(db, r)] >= OverrideOrDefault(db, r)
             THEN /\ db'.balance[OwnerOf(db, r)] =
                        db.balance[OwnerOf(db, r)] - OverrideOrDefault(db, r)
                  /\ db'.reservations[r].status = "completed"
             ELSE /\ db'.balance = db.balance
                  /\ db'.reservations[r].status = "expired"]_vars

\* ------------------------------------------------------ auto_search_for_code
\* The columns of ProviderMessage, models.py:226-240.
ProviderMessageColumns ==
    {"id", "service_id", "group_chat_id", "sender_id", "message_text", "raw_payload",
     "received_at", "status", "processed_at"}

\* An audit record that process_incoming_group_message stored within the last
\* hour and marked ORPHAN: its message_text holds the phone of Number n and the
\* code (0: no code).
StoredMessage(n, code) == [status |-> "orphan", mode |-> "token_only", to |-> n, code |-> code]

\* The records of the log whose text contains the phone of Number n and from which
\* extract_number_and_code obtains that phone and a code (main.py:205-216).
HoldsCodeFor(log, n) == {i \in DOMAIN log : log[i].to = n /\ log[i].code /= 0}

\* main.py:180-225, with an active group of the service: the query of 205-210
\* names ProviderMessage.created_at; building it raises AttributeError when the
\* class has no such column, and the except of 221 returns None (0).  Otherwise
\* the newest record that holds the phone and a code gives the code.
search_code_in_groups(log, n) ==
    IF "created_at" \notin ProviderMessageColumns THEN 0
    ELSE IF HoldsCodeFor(log, n) = {} THEN 0
    ELSE log[CHOOSE i \in HoldsCodeFor(log, n) : \A j \in HoldsCodeFor(log, n) : j <= i].code

WatchDone(w) == [w EXCEPT !.pc = "done"]

\* A variant of the loop that does not count the attempt.
SameAttempt(w) == w

\* main.py:281-282 and the loop condition of 235: attempts += 1, sleep, and the
\* loop ends when attempts reaches max_attempts.
NextAttempt(w) ==
    [pc |-> IF w.attempts + 1 >= MaxAttempts THEN "done" ELSE "run",
     attempts |-> w.attempts + 1]

\* country_selected_handler after reserve_number returned (main.py:2405-2412): it
\* queries the Number and the Service and creates the task, which first sleeps.
WatchStart(r) ==
    /\ watch[r].pc = "off"
    /\ r <= Len(db.reservations)
    /\ watch' = [watch EXCEPT ![r].pc = "run"]
    /\ db_leave_open
    /\ acquired' = <<>>
    /\ lastCall' = NoCall /\ UNCHANGED <<dueUpTo, inbound, poll, clock>>

\* One turn of the loop of main.py:235-282, from the end of a sleep to the next.
\* raised: a statement of the turn raises (the store is unreachable, say): except
\* logs, finally closes the session, and the attempt is counted.  The search
\* closes the shared session (224) before Complete is called.
WatchCycle(r, raised) ==
    /\ watch[r].pc = "run"
    /\ IF raised
       THEN /\ watch' = [watch EXCEPT ![r] = NextAttempt(@)]
            /\ db_close /\ acquired' = <<>> /\ lastCall' = NoCall
       ELSE IF ~Waiting(sess, r) \/ ~sess.numbers[sess.reservations[r].number_id].present
       THEN /\ watch' = [watch EXCEPT ![r] = WatchDone(@)]
            /\ db_close /\ acquired' = <<>> /\ lastCall' = NoCall
       ELSE IF search_code_in_groups(audit, sess.reservations[r].number_id) = 0
       THEN /\ watch' = [watch EXCEPT ![r] = NextAttempt(@)]
            /\ db_close /\ acquired' = <<>> /\ lastCall' = NoCall
       ELSE \E ok \in BOOLEAN :
              /\ CompleteOn(db, FALSE, r,
                            search_code_in_groups(audit, sess.reservations[r].number_id), ok)
              /\ watch' = [watch EXCEPT ![r] = IF ok /\ lastCall'.ret THEN WatchDone(@)
                                               ELSE NextAttempt(@)]
    /\ UNCHANGED <<dueUpTo, inbound, poll, clock>>

WatchInit ==
    /\ StoreInit
    /\ probe = NoProbe

WatchNext ==
    \/ \E u \in Users, c \in Countries : reserve_number(u, c)
    \/ \E r \in ResIds : WatchStart(r)
    \/ \E r \in ResIds, raised \in BOOLEAN : WatchCycle(r, raised)
    \/ \E r \in ResIds, code \in Codes, ok \in BOOLEAN :
          complete_reservation_atomic(r, code, ok)
    \/ SweepStart
    \/ \E ok \in BOOLEAN : SweepNext(ok)
    \/ TimePasses
    \/ \E failed \in BOOLEAN : SessionClose(failed)

\* asyncio resumes a task whose sleep is over: a watcher that is in its loop
\* takes its next turn.
WatcherScheduled == \A r \in ResIds : WF_vars(\E raised \in BOOLEAN : WatchCycle(r, raised))

WatchSpec == WatchInit /\ [][WatchNext]_vars /\ WatcherScheduled

\* The step is a turn of the watcher of reservation r in which nothing raises.
Watching(r) == WatchCycle(r, FALSE)

\* C22: every watcher terminates.  A turn that observes the reservation no longer
\* WAITING_CODE, or a Complete that succeeded, is the watcher's last; the attempts
\* never exceed max_attempts, counting the turns that raise; and a watcher that is
\* in its loop eventually leaves it.
C22_WatcherTerminates ==
    /\ [][\A r \in ResIds :
            /\ (Watching(r) /\ ~Waiting(sess, r)) => watch'[r].pc = "done"
            /\ (Watching(r) /\ lastCall'.ret) => watch'[r].pc = "done"
            /\ watch[r].pc = "done" => watch'[r] = watch[r]
            /\ watch'[r].attempts <= MaxAttempts
            /\ watch'[r].attempts = MaxAttempts => watch'[r].pc = "done"]_vars
    /\ \A r \in ResIds : (watch[r].pc = "run") ~> (watch[r].pc = "done")

\* A watcher gave up after max_attempts turns on a reservation still waiting, and
\* another stopped on a reservation that was no longer waiting.
C22_StoppedBothWays ==
    /\ watch[1].pc = "done" /\ watch[1].attempts = MaxAttempts /\ Waiting(db, 1)
    /\ watch[2].pc = "done" /\ watch[2].attempts < MaxAttempts /\ ~Waiting(db, 2)

\* The audit log may already hold a record, of a message that came when no
\* reservation was waiting for it, when the reservation is made.
StoredLogs == {<<>>} \cup {<<StoredMessage(n, code)>> : n \in Numbers, code \in Codes}

SearchInit ==
    /\ db = StoreRows([n \in Numbers |-> OverrideOf(n)])
    /\ audit \in StoredLogs
    /\ probe = NoProbe
    /\ Quiet

SearchSpec == SearchInit /\ [][WatchNext]_vars

\* C28: a turn of the watcher, in which nothing raises, that finds the reservation
\* WAITING_CODE with its Number, while the audit log holds a recent record with the
\* Number's phone and a code, calls Complete for the reservation.
C28_WatcherCompletesFromLog ==
    [][\A r \in ResIds :
          (/\ Watching(r)
           /\ Waiting(sess, r)
           /\ sess.numbers[sess.reservations[r].number_id].present
           /\ HoldsCodeFor(audit, sess.reservations[r].number_id) /= {}) =>
             (lastCall'.rid = r /\ lastCall'.outcome /= "none")]_vars

\* ---------------------------------------------------- poll_provider_messages
\* A message of a provider's answer: to is the Number whose phone_number the
\* normalized 'to' equals (0: the phone of no Number), code what
\* extract_code_from_message finds in the text (0: nothing).
ProviderMsgs == [to : {0} \cup Numbers, code : {0, 1}]

Batches == UNION {[1 .. k -> ProviderMsgs] : k \in 0 .. MaxBatch}

\* What the GET of process_provider_messages gives: it raises (a timeout after
\* PROVIDER_API_TIMEOUT, a refused connection), or it answers with a batch (an
\* answer whose status is not 200 counts as the empty batch).
Fetches ==
    {[ok |-> FALSE, messages |-> <<>>]} \cup {[ok |-> TRUE, messages |-> b] : b \in Batches}

\* main.py:1290-1312: the reservation that the queries of process_single_message
\* find for the message in the rows v, or 0 when it returns before.
MatchOf(v, msg) ==
    IF \/ msg.code = 0
       \/ msg.to = 0
       \/ ~v.numbers[msg.to].present
       \/ v.numbers[msg.to].status /= "reserved"
       \/ WaitingOn(v, msg.to) = {}
    THEN 0
    ELSE CHOOSE r \in WaitingOn(v, msg.to) : \A q \in WaitingOn(v, msg.to) : r <= q

\* main.py:1315-1318: ProviderMessage(provider_id=provider.id, ...) raises, a
\* DetachedInstanceError when provider.id cannot be read and a TypeError
\* otherwise, because the class has no attribute provider_id; the commit of 1319
\* and the call of Complete of 1323 are behind it.
Raises(v, msg) == MatchOf(v, msg) /= 0 /\ "provider_id" \notin ProviderMessageColumns

\* The loop of main.py:1263-1264 has no except of its own: the first message that
\* raises ends it.  The place of that message in the batch, or 0.
FirstRaise(v, b) ==
    IF \A i \in DOMAIN b : ~Raises(v, b[i]) THEN 0
    ELSE CHOOSE i \in DOMAIN b : Raises(v, b[i]) /\ \A j \in 1 .. i - 1 : ~Raises(v, b[j])

Handled(v, b) == IF FirstRaise(v, b) = 0 THEN Len(b) ELSE FirstRaise(v, b) - 1

\* The tick begins (main.py:1231-1241): the providers are loaded into the shared
\* session, provider 1 gives its api_key and base_url and its GET is awaited.
PollStart ==
    /\ poll.pc = "sleep"
    /\ poll' = [pc |-> "fetch", at |-> 1, fetched |-> {1}, handled |-> 0]
    /\ provs' = [p \in Providers |-> "A"]
    /\ txActive' = TRUE
    /\ UNCHANGED <<db, sess, sweep, held>>
    /\ acquired' = <<>>
    /\ lastCall' = NoCall /\ UNCHANGED <<dueUpTo, inbound, watch, clock>>

\* finally: db.close() of the tick (1244-1245), or of extract_code_from_message
\* and process_single_message (890, 1326), with the Provider objects left as objs.
PollClose(objs) ==
    /\ db' = db
    /\ sess' = db
    /\ txActive' = FALSE
    /\ sweep' = Closed(sweep, sess)
    /\ held' = Detached(held)
    /\ provs' = objs

\* The GET of provider poll.at is over.  A batch with a message is processed to
\* its end or to the first message that raises, on the rows the store has
\* committed (the first extract_code_from_message closes the session).  What is
\* raised reaches the except of 1266, which reads provider.name: a detached and
\* expired object raises there again, and again in the except of 1242, which ends
\* the loop over the providers.  Otherwise the next provider gives its api_key
\* (which raises in the same way for a detached and expired object) and its GET
\* is awaited, or the tick ends.
PollFetched(res) ==
    /\ poll.pc = "fetch"
    /\ LET p == poll.at
           b == res.messages
           closed == res.ok /\ b /= <<>>
           st == [q \in Providers |-> IF closed THEN Detached(provs[q]) ELSE provs[q]]
           raised == ~res.ok \/ FirstRaise(db, b) /= 0
           abort == \/ raised /\ st[p] = "DE"
                    \/ p < NumProviders /\ st[p + 1] = "DE"
           ends == abort \/ p = NumProviders
           refreshed == {q \in Providers : \/ q = p /\ raised /\ st[q] = "AE"
                                           \/ q = p + 1 /\ st[q] = "AE"}
       IN  /\ IF ends
              THEN /\ PollClose([q \in Providers |-> "none"])
                   /\ poll' = [pc |-> "sleep", at |-> 0, fetched |-> poll.fetched,
                               handled |-> Handled(db, b)]
              ELSE /\ IF closed
                      THEN PollClose(st)
                      ELSE /\ UNCHANGED <<db, sess, sweep, held>>
                           /\ txActive' = (txActive \/ refreshed /= {})
                           /\ provs' = [q \in Providers |->
                                          IF q \in refreshed THEN "A" ELSE provs[q]]
                   /\ poll' = [pc |-> "fetch", at |-> p + 1,
                               fetched |-> poll.fetched \cup {p + 1},
                               handled |-> Handled(db, b)]
    /\ acquired' = <<>>
    /\ lastCall' = NoCall /\ UNCHANGED <<dueUpTo, inbound, watch, clock>>

PollNext ==
    \/ PollStart
    \/ \E res \in Fetches : PollFetched(res)
    \/ \E u \in Users, c \in Countries : reserve_number(u, c)
    \/ \E r \in ResIds, code \in Codes, ok \in BOOLEAN :
          complete_reservation_atomic(r, code, ok)
    \/ SweepStart
    \/ \E ok \in BOOLEAN : SweepNext(ok)
    \/ TimePasses
    \/ \E failed \in BOOLEAN : SessionClose(failed)

PollSpec == Init /\ [][PollNext]_vars

\* The step ends a tick of the poller.
TickEnds == poll.pc = "fetch" /\ poll'.pc = "sleep"

\* C23: whatever the fetch of a provider does, the tick fetches every active
\* provider before it ends; and the poller and the sweeper are always either
\* asleep until their next interval or at work.
C23_FailureIsIsolated ==
    /\ [][TickEnds => poll'.fetched = Providers]_vars
    /\ [](poll.pc \in {"sleep", "fetch"} /\ sweep.pc \in {"sleep", "send"})

\* The reservations that the messages of batch b match in the rows v.
Matched(v, b) == {MatchOf(v, b[i]) : i \in DOMAIN b} \ {0}

\* C29: when the answer of a provider is processed, Complete is called only for a
\* reservation that a message of the batch matches (a RESERVED Number with that
\* phone and a WAITING_CODE reservation on it, and a code in the text); a batch
\* with such a message does lead to a call of Complete for it; and
\* process_single_message returns for every message of the batch.
C29_PollerCompletesMatches ==
    [][\A res \in Fetches :
          PollFetched(res) =>
             /\ lastCall'.rid /= 0 => lastCall'.rid \in Matched(db, res.messages)
             /\ Matched(db, res.messages) /= {} => lastCall'.rid \in Matched(db, res.messages)
             /\ poll'.handled = Len(res.messages)]_vars

\* ------------------------------------------------------- single-use Numbers
\* The step belongs to Reserve, Complete, the expiry sweep, change-number or
\* change-country.
Renting ==
    \/ \E u \in Users, c \in Countries : reserve_number(u, c)
    \/ \E r \in ResIds : Completing(r)
    \/ Sweeping
    \/ Changing

\* C32: a Number that is USED in the committed rows is not made AVAILABLE or
\* RESERVED by any step of Reserve, Complete, the sweep, change-number or
\* change-country, and no reservation is made on it.
C32_UsedStaysUsed ==
    [][\A n \in Numbers :
          (Renting /\ db.numbers[n].status = "used") =>
             /\ db'.numbers[n].status \notin {"available", "reserved"}
             /\ WaitingOn(db', n) \subseteq WaitingOn(db, n)]_vars

\* ------------------------------------------------------- Complete's result
\* The step committed the transition of reservation r to COMPLETED.
CommittedCompletion(r) ==
    /\ Waiting(db, r)
    /\ HasRes(db', r)
    /\ db'.reservations[r].status = "completed"

\* C34: a call of Complete reports success exactly when the call committed the
\* transition of its reservation to COMPLETED, whatever happens after the commit.
C34_ResultIsTheCommit ==
    [][\A r \in ResIds : Completing(r) => (lastCall'.ret <=> CommittedCompletion(r))]_vars

\* ------------------------------------------------- the ledger and the balance
\* Transaction.amount with the sign of its type: ADD and REWARD credit the user,
\* DEDUCT and PURCHASE debit them.
SignedAmount(t) == IF t.type \in {"add", "reward"} THEN t.amount ELSE 0 - t.amount

RECURSIVE LedgerSum(_, _)
LedgerSum(table, rows) ==
    IF rows = {} THEN 0
    ELSE LET t == CHOOSE x \in rows : TRUE
         IN  CopiesIn(t, table) * SignedAmount(t) + LedgerSum(table, rows \ {t})

\* What the Transactions of user u add up to in the rows v.
LedgerOf(v, u) == LedgerSum(v.transactions, {t \in BagToSet(v.transactions) : t.user_id = u})

PendingExpiry(r) ==
    /\ sweep.pc = "send"
    /\ Waiting(db, r)
    /\ HasRes(sess, r)
    /\ sess.reservations[r].status = "expired"

\* C37: while the sweeper is suspended on a send, a step of another task neither
\* commits nor discards what the sweeper has written and not yet committed: the
\* reservation it marked EXPIRED is still EXPIRED for it and still WAITING_CODE in
\* the committed rows.
C37_PendingWritesAreOwn ==
    [][\A r \in ResIds :
          (PendingExpiry(r) /\ ~Sweeping) =>
             /\ HasRes(sess', r) /\ sess'.reservations[r].status = "expired"
             /\ Waiting(db', r)]_vars

\* ----------------------------------------------- the effect of change-number
\* Number n is RESERVED for the owner of reservation r until r's expiry.
ReservedFor(v, n, r) ==
    /\ v.numbers[n].status = "reserved"
    /\ v.numbers[n].reserved_by = v.reservations[r].user_id
    /\ v.numbers[n].expires_at = v.reservations[r].expired_at

\* C38: change-number on a reservation that is WAITING_CODE (in the committed rows
\* and for the session) on a Number that exists either moves it to another Number
\* of the same country that was AVAILABLE, the old one becoming AVAILABLE with
\* owner and expiry cleared, or, when no other Number is available, leaves it on
\* its Number; either way the reservation stays WAITING_CODE with its owner and
\* its expiry, nothing is debited or booked, and its Number is RESERVED for its
\* owner until the reservation's expiry.
C38_ChangeNumberEffect ==
    [][\A r \in ResIds :
          (/\ change_number_handler(r)
           /\ Waiting(db, r)
           /\ Waiting(sess, r)
           /\ sess.reservations[r] = db.reservations[r]
           /\ sess.numbers[db.reservations[r].number_id].present) =>
             /\ Waiting(db', r)
             /\ db'.reservations[r].user_id = db.reservations[r].user_id
             /\ db'.reservations[r].expired_at = db.reservations[r].expired_at
             /\ db'.balance = db.balance
             /\ db'.transactions = db.transactions
             /\ ReservedFor(db', db'.reservations[r].number_id, r)
             /\ IF db'.reservations[r].number_id /= db.reservations[r].number_id
                THEN /\ db'.reservations[r].number_id \in
                          AvailableNumbers(sess, CountryOf(db.reservations[r].number_id))
                     /\ db'.numbers[db.reservations[r].number_id].status = "available"
                     /\ db'.numbers[db.reservations[r].number_id].reserved_by = 0
                     /\ db'.numbers[db.reservations[r].number_id].expires_at = 0
                ELSE AvailableNumbers(sess, CountryOf(db.reservations[r].number_id))
                        \subseteq {db.reservations[r].number_id}]_vars

\* The only reservation was just moved to another Number: its old Number is
\* AVAILABLE again and the session is still open.
C38_MovedToAnother ==
    /\ acquired = ChangeNumberLocks
    /\ txActive
    /\ Len(db.reservations) = 1
    /\ Waiting(db, 1)
    /\ ReservedFor(db, db.reservations[1].number_id, 1)
    /\ \E n \in Numbers : db.numbers[n].status = "available"

\* ------------------------------------------------- the release of a Number
\* The sweeper keeps running (main.py:1330, 1371-1374), the clock advances, and a
\* send of the sweeper that is tried again and again succeeds in the end.
ReleaseScheduled ==
    /\ SweeperScheduled
    /\ SF_vars(SweepNext(TRUE))
    /\ WF_vars(TimePasses)

ReleaseSpec == Init /\ [][Next]_vars /\ ReleaseScheduled

\* C33: every Number that is RESERVED is eventually USED or AVAILABLE, with the
\* sweeper kept running.
C33_ReservedEventuallyFreed ==
    \A n \in Numbers :
        (db.numbers[n].status = "reserved") ~> (db.numbers[n].status \in {"used", "available"})

\* ------------------------------------------------- the watcher against the clock
\* auto_search_for_code sleeps 15 seconds (main.py:230), then takes up to
\* max_attempts turns (232), 5 seconds apart (287); reserve_number sets
\* expired_at = now + RESERVATION_TIMEOUT_MIN minutes (1100, config.py:15).
GraceSec == 15
IntervalSec == 5
max_attempts == 50
RESERVATION_TIMEOUT_MIN == 20

\* The clock advances TickSec seconds at a time, up to Horizon seconds after the
\* first reservation, and the timed behaviours hold TimedReservations reservation.
TickSec == 5
Horizon == 1210
TimedReservations == 1

\* reserve_number, main.py:1100: the instant after which reservation r is overdue.
ExpiresAt(r) == clock.since[r] + RESERVATION_TIMEOUT_MIN * 60

\* main.py:1337, Reservation.expired_at < now, at the instant t.
PastExpiry(r, t) == r <= Len(db.reservations) /\ ExpiresAt(r) < t

\* main.py:286-287 and the loop condition of 235, with the loop's own bound.
CountAttempt(w) ==
    [pc |-> IF w.attempts + 1 >= max_attempts THEN "done" ELSE "run",
     attempts |-> w.attempts + 1]

\* country_selected_handler creates the task as soon as reserve_number returned
\* (main.py:2405-2412); the task begins with its sleep of 15 seconds.
TimedStart(r) ==
    /\ watch[r].pc = "off"
    /\ r <= Len(db.reservations)
    /\ watch' = [watch EXCEPT ![r].pc = "run"]
    /\ clock' = [clock EXCEPT !.since[r] = clock.now, !.wake[r] = clock.now + GraceSec]
    /\ db_leave_open
    /\ acquired' = <<>>
    /\ lastCall' = NoCall /\ UNCHANGED <<dueUpTo, inbound, poll>>

\* One turn of the loop of main.py:235-287, taken when the sleep before it is over;
\* the turn itself takes no time on this clock, and ends in the next sleep.
TimedCycle(r, raised) ==
    /\ watch[r].pc = "run"
    /\ clock.wake[r] <= clock.now
    /\ clock' = [clock EXCEPT !.wake[r] = clock.now + IntervalSec]
    /\ IF raised
       THEN /\ watch' = [watch EXCEPT ![r] = CountAttempt(@)]
            /\ db_close /\ acquired' = <<>> /\ lastCall' = NoCall
       ELSE IF ~Waiting(sess, r) \/ ~sess.numbers[sess.reservations[r].number_id].present
       THEN /\ watch' = [watch EXCEPT ![r] = WatchDone(@)]
            /\ db_close /\ acquired' = <<>> /\ lastCall' = NoCall
       ELSE IF search_code_in_groups(audit, sess.reservations[r].number_id) = 0
       THEN /\ watch' = [watch EXCEPT ![r] = CountAttempt(@)]
            /\ db_close /\ acquired' = <<>> /\ lastCall' = NoCall
       ELSE \E ok \in BOOLEAN :
              /\ CompleteOn(db, FALSE, r,
                            search_code_in_groups(audit, sess.reservations[r].number_id), ok)
              /\ watch' = [watch EXCEPT ![r] = IF ok /\ lastCall'.ret THEN WatchDone(@)
                                               ELSE CountAttempt(@)]
    /\ UNCHANGED <<dueUpTo, inbound, poll>>

\* TickSec seconds pass.  asyncio resumes a task whose sleep is over before the
\* clock moves on, and a handler creates its watcher without delay; the
\* reservations whose expired_at is now in the past are 1..dueUpTo.
Tick ==
    /\ Len(db.reservations) >= 1
    /\ clock.now + TickSec <= Horizon
    /\ \A r \in ResIds : r <= Len(db.reservations) => watch[r].pc /= "off"
    /\ \A r \in ResIds : watch[r].pc = "run" => clock.now < clock.wake[r]
    /\ clock' = [clock EXCEPT !.now = @ + TickSec]
    /\ dueUpTo' = Cardinality({r \in ResIds : PastExpiry(r, clock.now + TickSec)})
    /\ acquired' = <<>>
    /\ lastCall' = NoCall
    /\ UNCHANGED <<db, sess, txActive, sweep, held, provs, inbound, watch, poll>>

BudgetNext ==
    \/ \E u \in Users, c \in Countries :
          Len(db.reservations) < TimedReservations /\ reserve_number(u, c)
    \/ \E r \in ResIds : TimedStart(r)
    \/ \E r \in ResIds, raised \in BOOLEAN : TimedCycle(r, raised)
    \/ \E r \in ResIds, code \in Codes, ok \in BOOLEAN :
          complete_reservation_atomic(r, code, ok)
    \/ SweepStart
    \/ \E ok \in BOOLEAN : SweepNext(ok)
    \/ Tick
    \/ \E failed \in BOOLEAN : SessionClose(failed)

BudgetSpec == WatchInit /\ [][BudgetNext]_vars

\* C31: the watcher's attempts cover the reservation timeout: a watcher that has
\* stopped while its reservation is still WAITING_CODE has stopped after the
\* reservation's expiry time.
C31_BudgetCoversTimeout ==
    \A r \in ResIds :
        (watch[r].pc = "done" /\ Waiting(db, r)) => ExpiresAt(r) < clock.now

\* ------------------------------------------------- the signed pair, as written
\* verify_hmac_signature's own searches, main.py:769-770: r'to:(\+\d+)' and
\* r'code:(\d+)', without re.IGNORECASE and without \s*.
SignedTo(s) ==
    LET at == {i \in 1 .. Len(s) - 1 : s[i] = "to:" /\ s[i + 1] = "+"
                                       /\ SkipDigits(s, i + 2) > i + 2}
        i  == CHOOSE k \in at : \A j \in at : k <= j
    IN  IF at = {} THEN <<>> ELSE SubSeq(s, i + 1, SkipDigits(s, i + 2) - 1)

SignedCode(s) ==
    LET at == {i \in 1 .. Len(s) - 1 : s[i] = "code:" /\ SkipDigits(s, i + 1) > i + 1}
        i  == CHOOSE k \in at : \A j \in at : k <= j
    IN  IF at = {} THEN <<>> ELSE SubSeq(s, i + 1, SkipDigits(s, i + 1) - 1)

\* verify_hmac_signature (main.py:750-790) on a text written as characters that
\* carries ts:<ts> and hmac:<digest> fields.
VerifyWritten(s, ts, digest, secret, now) ==
    IF Abs(now - ts) > MESSAGE_TIMESTAMP_WINDOW_MIN
    THEN FALSE
    ELSE IF SignedTo(s) = <<>> \/ SignedCode(s) = <<>>
    THEN FALSE
    ELSE Digest(secret, SignedTo(s), SignedCode(s), ts) = digest

\* A to: field followed by a code: field, each label in either letter case and
\* with or without a space after the colon.
PairParts ==
    [toLabel : ToLabel, toSpace : {<<>>, <<" ">>}, phone : {<<"1">>, <<"2">>},
     codeLabel : CodeLabel, codeSpace : {<<>>, <<" ">>}, code : {<<"1">>, <<"2">>}]

PairWritten(p) ==
    <<p.toLabel>> \o p.toSpace \o <<"+">> \o p.phone \o <<" ">>
        \o <<p.codeLabel>> \o p.codeSpace \o p.code

\* The texts with one such pair of fields, or with two.
SignedWritings ==
    {PairWritten(p) : p \in PairParts}
    \cup {PairWritten(p) \o <<" ">> \o PairWritten(q) : p \in PairParts, q \in PairParts}

\* A message of a group in hmac mode whose secret_token is the first secret: the
\* digest under it was made with some key over one of the phones and one of the
\* codes, now or too long ago.
AdmitInputs ==
    {[fn |-> "admit", chars |-> w, ts |-> ts, hmac |-> Digest(k, <<"+">> \o n, c, ts),
      secret |-> 1, regex |-> RunPattern(2, 2), done |-> FALSE, valid |-> FALSE,
      pair |-> <<<<>>, <<>>>>] :
        w \in SignedWritings, ts \in {Now, Now - MESSAGE_TIMESTAMP_WINDOW_MIN - 1},
        k \in Secrets, n \in {<<"1">>, <<"2">>}, c \in {<<"1">>, <<"2">>}}

AdmitInit == StoreInit /\ probe \in AdmitInputs

\* process_incoming_group_message, main.py:1916-1938: the security check, and on
\* a valid text the extraction whose pair goes on to the lookup and to Complete.
Admit ==
    /\ probe.fn = "admit" /\ ~probe.done
    /\ probe' = [probe EXCEPT
                    !.done = TRUE,
                    !.valid = VerifyWritten(probe.chars, probe.ts, probe.hmac, probe.secret, Now),
                    !.pair = IF VerifyWritten(probe.chars, probe.ts, probe.hmac, probe.secret, Now)
                             THEN ExtractFrom(probe.chars, probe.regex)
                             ELSE <<<<>>, <<>>>>]
    /\ UNCHANGED <<db, sess, txActive, sweep, dueUpTo, lastCall, audit, blocked, ing, held,
                   watch, poll, provs, acquired, clock>>

AdmitNext == Admit

AdmitSpec == AdmitInit /\ [][AdmitNext]_vars

\* C35: in HMAC mode the phone and the code that an accepted message passes on to
\* the lookup and to Complete are the phone and the code whose digest the
\* verifier checked.
C35_SignedPairIsPassedOn ==
    (probe.fn = "admit" /\ probe.done /\ probe.valid) =>
        /\ probe.pair = <<SignedTo(probe.chars), SignedCode(probe.chars)>>
        /\ probe.hmac = Digest(probe.secret, probe.pair[1], probe.pair[2], probe.ts)
====
